---- MODULE Spec2Model ----
(***************************************************************************)
(* Model of NamespaceAuditor (src/src/namespace_audit/main.py): the main   *)
(* thread running audit_cluster, W worker threads running _worker and     *)
(* _traverse_namespace, the shared queue.Queue (items and its             *)
(* unfinished_tasks counter), thread_lock, AuditData and AuditStats.      *)
(*                                                                         *)
(* A namespace path is a node 1..NumNodes of a tree; node 1 is the start  *)
(* path.  The shutdown sentinel None is the queue item 0.                 *)
(***************************************************************************)
EXTENDS Naturals, Integers, Sequences, FiniteSets, TLC

\* ---------------------------------------------------------------- bounds
NumNodes == 3

MaxWorkers == 2

MaxBatch == 2

\* How many times, in one run, a dequeue wait may expire with queue.Empty.
MaxExpiries == 1

\* Longest list of records an export is given.
MaxRecords == 2

\* Most mounts one namespace has in a mount map.
MaxMounts == 2

Nodes == 1..NumNodes

Workers == 1..MaxWorkers

StartPath == 1

Sentinel == 0

\* What the Server answers for one path: the mount listings (list_auth_methods,
\* list_mounted_secrets_engines) and the child listing (list_namespaces).
RespKinds == {"ok", "forbidden", "error", "ns_invalid", "ns_forbidden"}

VARIABLES
    parent,             \* the namespace tree: parent[n] for n # StartPath
    resp,               \* resp[n]: the Server's answer for path n
    worker_threads,     \* self.worker_threads
    rate_limit_batch_size,
    rate_limit_disable,
    path_queue,         \* items of the queue.Queue, head first
    unfinished_tasks,   \* queue.Queue.unfinished_tasks
    mainPc,             \* position of audit_cluster
    mainI,              \* loop index of the sentinel loop
    pc,                 \* pc[w]: position of worker w
    cur,                \* cur[w]: namespace_path in hand
    kids,               \* kids[w]: children still to enqueue
    thread_lock,        \* 0 = free, else the holder
    auth_methods,       \* keys of data.auth_methods
    secret_engines,     \* keys of data.secret_engines
    namespaces,         \* keys of data.namespaces
    processed_count,
    error_count,
    sleeps,             \* number of time.sleep calls of the rate limit
    visits,             \* visits[n]: calls of _traverse_namespace(n)
    enq,                \* enq[n]: times n was put on the queue
    errs,               \* errs[n]: increment_errors calls made for path n
    reports,            \* TRUE once _write_reports has run
    expiries,           \* number of queue.Empty expiries so far
    json_written,       \* TRUE once _write_reports has written its JSON files
    intr,               \* "none", or how a KeyboardInterrupt found the queue
    csv_files,          \* the CSV summaries _write_reports has written
    slept_at            \* slept_at[c]: sleeps begun on reading processed_count = c

auditVars == <<parent, resp, worker_threads, rate_limit_batch_size, rate_limit_disable,
               path_queue, unfinished_tasks, mainPc, mainI, pc, cur, kids, thread_lock,
               auth_methods, secret_engines, namespaces, processed_count, error_count,
               sleeps, visits, enq, errs, reports, expiries, json_written, intr,
               csv_files, slept_at>>

cfgVars == <<parent, resp, worker_threads, rate_limit_batch_size, rate_limit_disable>>

dataVars == <<auth_methods, secret_engines, namespaces>>

\* ------------------------------------------- state of the other three models
\* The same auditor with its paths as strings (sequences of characters), run by
\* one worker from the command line: what is enqueued and under which keys.
VARIABLES
    s_command,          \* args.command: "namespace-audit" or "all"
    s_given,            \* TRUE when -n was on the command line
    s_namespace,        \* args.namespace
    s_live,             \* the namespaces that exist on the Server, besides root
    s_pc,
    s_path_queue,
    s_auth_methods,     \* keys of data.auth_methods
    s_secret_engines,   \* keys of data.secret_engines
    s_namespaces,       \* keys of data.namespaces
    s_processed_count,
    s_error_count,
    s_stored,           \* [path, key]: mounts of path were stored under key
    s_children          \* [parent, name, put, key]: one record per listed child

pathVars == <<s_command, s_given, s_namespace, s_live, s_pc, s_path_queue,
              s_auth_methods, s_secret_engines, s_namespaces, s_processed_count,
              s_error_count, s_stored, s_children>>

\* main() of src/main.py: one run of the command line tool.
VARIABLES
    command,            \* args.command
    vault_addr,         \* TRUE when VAULT_ADDR is set and not empty
    vault_token,        \* TRUE when VAULT_TOKEN is set and not empty
    start_date,         \* args.start_date
    end_date,           \* args.end_date
    cli_pc,
    exit_code,          \* exit status of the process, once cli_pc = "exit"
    requests_sent,      \* export requests sent to the Server
    files_written,      \* TRUE once any output file has been written
    conn_failed,        \* a validate_connection call has failed
    ns_failed,          \* the audit counted errors for some namespaces
    export_failed,      \* an export request was answered with an error
    interrupted         \* a KeyboardInterrupt ended the audit

cliVars == <<command, vault_addr, vault_token, start_date, end_date, cli_pc,
             exit_code, requests_sent, files_written, conn_failed, ns_failed,
             export_failed, interrupted>>

\* run_activity_export / run_entity_export: one export of decoded data.
VARIABLES
    export,             \* "activity" or "entity"
    data,               \* what the Server returns: by_namespace, or the records
    x_pc,
    namespaces_data,    \* rows of the per-namespace CSV
    mounts_data,        \* rows of the per-mount CSV
    df,                 \* rows of the entity DataFrame
    df_columns,         \* its columns
    files,              \* the files written by this export
    failed,             \* an error occurred while fetching or writing
    raised              \* an exception reached the caller of run_*_export

exportVars == <<export, data, x_pc, namespaces_data, mounts_data, df, df_columns,
                files, failed, raised>>

\* _write_item_summary: one call on a mount map.
VARIABLES
    sm_data,            \* data: the mount map, as (namespace, items) in dict order
    sm_pc,
    sm_records,         \* the rows handed to write_csv
    sm_columns,         \* the columns handed to write_csv
    sm_written,         \* TRUE once write_csv was called
    sm_raised           \* an exception left _write_item_summary

summaryVars == <<sm_data, sm_pc, sm_records, sm_columns, sm_written, sm_raised>>

\* The legacy standalone tool (src/namespace_audit/main.py): main(),
\* VaultAuditor.audit_cluster and its worker threads.
VARIABLES
    lg_parent,          \* the namespace tree
    lg_worker_threads,  \* config.worker_threads
    lg_path_queue,
    lg_unfinished_tasks,
    lg_mainPc,          \* position of main() / audit_cluster
    lg_mainI,
    lg_pc,              \* lg_pc[w]: position of worker w
    lg_cur,             \* lg_cur[w]: namespace_path in hand
    lg_expiries,        \* number of queue.Empty expiries so far
    lg_files,           \* the report files written
    lg_result,          \* what audit_cluster returned, "none" before
    lg_exit             \* what main() returned, once lg_mainPc = "exit"

legacyVars == <<lg_parent, lg_worker_threads, lg_path_queue, lg_unfinished_tasks,
                lg_mainPc, lg_mainI, lg_pc, lg_cur, lg_expiries, lg_files, lg_result,
                lg_exit>>

\* VaultClient (src/src/common/vault_client.py): one call of get, post or
\* validate_connection against one answer of the Server.
VARIABLES
    vc_op,              \* "get", "post" or "validate"
    vc_adapter,         \* hvac adapter in use: "json" (JSONAdapter) or "raw"
    vc_transport,       \* "ok", "ConnectionError" or "Timeout"
    vc_status,          \* HTTP status of the answer
    vc_shape,           \* how the body was produced from vc_records
    vc_records,         \* the records the Server exports, by their ids
    vc_body,            \* response.text, as a sequence of tokens
    vc_health,          \* what read_health_status gives
    vc_sealed,          \* what client.sys.is_sealed() gives
    vc_authenticated,   \* what client.is_authenticated() gives
    vc_initialized,     \* what client.sys.is_initialized() gives
    vc_pc,
    vc_result,          \* the value returned by get / post
    vc_cluster_name,    \* the value returned by validate_connection
    vc_raised,          \* the class of the exception that left the call
    vc_decoded          \* the decoder of get (response.json() and on) has run

clientVars == <<vc_op, vc_adapter, vc_transport, vc_status, vc_shape, vc_records,
                vc_body, vc_health, vc_sealed, vc_authenticated, vc_initialized,
                vc_pc, vc_result, vc_cluster_name, vc_raised, vc_decoded>>

\* One call of NamespaceAuditor._traverse_namespace (src/src/namespace_audit/
\* main.py) against the answers the Server gives to its three list calls.
VARIABLES
    tv_auth,            \* outcome of client.sys.list_auth_methods()
    tv_secrets,         \* outcome of client.sys.list_mounted_secrets_engines()
    tv_ns,              \* outcome of client.sys.list_namespaces()
    tv_children,        \* number of entries of key_info
    tv_pc,
    tv_auth_stored,     \* data.auth_methods has an entry for the path
    tv_secrets_stored,  \* data.secret_engines has an entry for the path
    tv_put,             \* number of children put on the queue
    tv_recorded,        \* number of children in data.namespaces
    tv_lock,            \* thread_lock is held by the visit
    tv_processed,       \* stats.processed_count
    tv_errors           \* stats.error_count

visitVars == <<tv_auth, tv_secrets, tv_ns, tv_children, tv_pc, tv_auth_stored,
               tv_secrets_stored, tv_put, tv_recorded, tv_lock, tv_processed, tv_errors>>

\* AuditStats and AuditData under concurrent threads: the steps of
\* increment_processed, increment_errors and of the with-blocks that write
\* the three maps.
VARIABLES
    st_pc,              \* st_pc[t]: position of thread t
    st_calls,           \* st_calls[t]: calls thread t has begun
    st_tmp,             \* st_tmp[t]: the counter value read by +=
    st_lock,            \* holder of AuditStats._lock, 0 when free
    st_tlock,           \* holder of thread_lock, 0 when free
    st_processed,       \* stats.processed_count
    st_errors,          \* stats.error_count
    st_k,               \* increment_processed calls returned
    st_m,               \* increment_errors calls returned
    st_written          \* st_written[d]: the threads with an entry in map d

statsVars == <<st_pc, st_calls, st_tmp, st_lock, st_tlock, st_processed, st_errors,
               st_k, st_m, st_written>>

\* The oldest revision (src/cluster_audit/main.py): main(), worker() and
\* traverse_namespace.
VARIABLES
    o_parent,           \* the namespace tree
    o_resp,             \* o_resp[n]: how the Vault calls of the visit of n end
    o_queue,            \* path_queue
    o_unfinished,       \* its count of unfinished tasks
    o_mainPc,
    o_mainI,
    o_pc,               \* o_pc[w]: position of worker w
    o_cur,              \* o_cur[w]: namespace_path in hand
    o_kids,             \* o_kids[w]: children still to put
    o_taken,            \* paths taken from the queue so far
    o_done,             \* task_done calls made so far
    o_stored            \* paths with an entry in the three global dicts

oldVars == <<o_parent, o_resp, o_queue, o_unfinished, o_mainPc, o_mainI, o_pc, o_cur,
             o_kids, o_taken, o_done, o_stored>>

moreVars == <<visitVars, statsVars, oldVars>>

laterVars == <<summaryVars, legacyVars, clientVars, moreVars>>

toolVars == <<pathVars, cliVars, exportVars, laterVars>>

vars == <<auditVars, toolVars>>

PathIdle ==
    /\ s_command = "off"
    /\ s_given = FALSE
    /\ s_namespace = <<>>
    /\ s_live = {}
    /\ s_pc = "off"
    /\ s_path_queue = <<>>
    /\ s_auth_methods = {}
    /\ s_secret_engines = {}
    /\ s_namespaces = {}
    /\ s_processed_count = 0
    /\ s_error_count = 0
    /\ s_stored = {}
    /\ s_children = {}

CliIdle ==
    /\ command = "off"
    /\ vault_addr = FALSE
    /\ vault_token = FALSE
    /\ start_date = <<>>
    /\ end_date = <<>>
    /\ cli_pc = "off"
    /\ exit_code = 0
    /\ requests_sent = 0
    /\ files_written = FALSE
    /\ conn_failed = FALSE
    /\ ns_failed = FALSE
    /\ export_failed = FALSE
    /\ interrupted = FALSE

ExportIdle ==
    /\ export = "off"
    /\ data = <<>>
    /\ x_pc = "off"
    /\ namespaces_data = <<>>
    /\ mounts_data = <<>>
    /\ df = <<>>
    /\ df_columns = {}
    /\ files = {}
    /\ failed = FALSE
    /\ raised = FALSE

SummaryIdle ==
    /\ sm_data = <<>>
    /\ sm_pc = "off"
    /\ sm_records = <<>>
    /\ sm_columns = {}
    /\ sm_written = FALSE
    /\ sm_raised = FALSE

LegacyIdle ==
    /\ lg_parent = [n \in Nodes \ {StartPath} |-> StartPath]
    /\ lg_worker_threads = 1
    /\ lg_path_queue = <<>>
    /\ lg_unfinished_tasks = 0
    /\ lg_mainPc = "off"
    /\ lg_mainI = 0
    /\ lg_pc = [w \in Workers |-> "off"]
    /\ lg_cur = [w \in Workers |-> 0]
    /\ lg_expiries = 0
    /\ lg_files = {}
    /\ lg_result = "none"
    /\ lg_exit = 0

\* No value: what a call that raised has returned.
NoValue == [kind |-> "none", id |-> "", items |-> <<>>]

ClientIdle ==
    /\ vc_op = "off"
    /\ vc_adapter = "raw"
    /\ vc_transport = "ok"
    /\ vc_status = 200
    /\ vc_shape = "empty"
    /\ vc_records = <<>>
    /\ vc_body = <<>>
    /\ vc_health = "dict"
    /\ vc_sealed = "False"
    /\ vc_authenticated = "True"
    /\ vc_initialized = "True"
    /\ vc_pc = "off"
    /\ vc_result = NoValue
    /\ vc_cluster_name = ""
    /\ vc_raised = "none"
    /\ vc_decoded = FALSE

VisitIdle ==
    /\ tv_auth = "ok"
    /\ tv_secrets = "ok"
    /\ tv_ns = "ok"
    /\ tv_children = 0
    /\ tv_pc = "off"
    /\ tv_auth_stored = FALSE
    /\ tv_secrets_stored = FALSE
    /\ tv_put = 0
    /\ tv_recorded = 0
    /\ tv_lock = FALSE
    /\ tv_processed = 0
    /\ tv_errors = 0

StatsIdle ==
    /\ st_pc = [t \in Workers |-> "off"]
    /\ st_calls = [t \in Workers |-> 0]
    /\ st_tmp = [t \in Workers |-> 0]
    /\ st_lock = 0
    /\ st_tlock = 0
    /\ st_processed = 0
    /\ st_errors = 0
    /\ st_k = 0
    /\ st_m = 0
    /\ st_written = [d \in {"auth_methods", "secret_engines", "namespaces"} |-> {}]

OldIdle ==
    /\ o_parent = [n \in Nodes \ {StartPath} |-> StartPath]
    /\ o_resp = [n \in Nodes |-> "ok"]
    /\ o_queue = <<>>
    /\ o_unfinished = 0
    /\ o_mainPc = "off"
    /\ o_mainI = 0
    /\ o_pc = [w \in Workers |-> "off"]
    /\ o_cur = [w \in Workers |-> 0]
    /\ o_kids = [w \in Workers |-> <<>>]
    /\ o_taken = 0
    /\ o_done = 0
    /\ o_stored = {}

MoreIdle == VisitIdle /\ StatsIdle /\ OldIdle

LaterIdle == SummaryIdle /\ LegacyIdle /\ ClientIdle /\ MoreIdle

ToolsIdle == PathIdle /\ CliIdle /\ ExportIdle /\ LaterIdle

\* ------------------------------------------------------------- the Server
\* The children the Server lists under p, in the order of key_info.
RECURSIVE ChildSeqFrom(_, _)
ChildSeqFrom(p, n) ==
    IF n > NumNodes THEN <<>>
    ELSE IF n # StartPath /\ parent[n] = p
         THEN <<n>> \o ChildSeqFrom(p, n + 1)
         ELSE ChildSeqFrom(p, n + 1)

ChildSeq(p) == ChildSeqFrom(p, 1)

\* Mutant: a Forbidden mount listing is not treated as a failure.
MountsFail_ForbiddenPasses(p) == resp[p] = "error"

MountsFail(p) == resp[p] \in {"forbidden", "error"}

NsFail(p) == resp[p] = "ns_forbidden"

\* key_info of list_namespaces for p; InvalidPath counts as no children.
ListedChildren(p) == IF resp[p] = "ok" THEN ChildSeq(p) ELSE <<>>

\* p is listed by the Server to a run that starts at StartPath: every proper
\* ancestor of p answers "ok".  The answer for any other path is never read.
RECURSIVE Listable(_, _, _)
Listable(par, rsp, p) ==
    IF p = StartPath THEN TRUE
    ELSE rsp[par[p]] = "ok" /\ Listable(par, rsp, par[p])

\* --------------------------------------------------------------- Init
AuditInit ==
    /\ parent \in {f \in [Nodes \ {StartPath} -> Nodes] : \A n \in DOMAIN f : f[n] < n}
    /\ resp \in {r \in [Nodes -> RespKinds] :
                    \A n \in Nodes : ~Listable(parent, r, n) => r[n] = "ok"}
    /\ worker_threads \in 1..MaxWorkers
    /\ rate_limit_disable \in BOOLEAN
    /\ rate_limit_batch_size \in (IF rate_limit_disable THEN {MaxBatch} ELSE 1..MaxBatch)
    /\ path_queue = <<>>
    /\ unfinished_tasks = 0
    /\ mainPc = "validate"
    /\ mainI = 0
    /\ pc = [w \in Workers |-> "off"]
    /\ cur = [w \in Workers |-> 0]
    /\ kids = [w \in Workers |-> <<>>]
    /\ thread_lock = 0
    /\ auth_methods = {}
    /\ secret_engines = {}
    /\ namespaces = {}
    /\ processed_count = 0
    /\ error_count = 0
    /\ sleeps = 0
    /\ visits = [n \in Nodes |-> 0]
    /\ enq = [n \in Nodes |-> 0]
    /\ errs = [n \in Nodes |-> 0]
    /\ reports = FALSE
    /\ expiries = 0
    /\ json_written = FALSE
    /\ intr = "none"
    /\ csv_files = {}
    /\ slept_at = [c \in Nodes |-> 0]

Init == AuditInit /\ ToolsIdle

\* ------------------------------------------------------- audit_cluster
\* Mutant: the reports are written although the connection failed.
ValidateFails_StillWrites ==
    /\ mainPc = "validate"
    /\ mainPc' = "failed"
    /\ reports' = TRUE
    /\ UNCHANGED <<toolVars, slept_at, csv_files, intr, json_written, cfgVars, path_queue, unfinished_tasks, mainI, pc, cur, kids,
                   thread_lock, dataVars, processed_count, error_count, sleeps,
                   visits, enq, errs, expiries>>

\* validate_connection raises VaultConnectionError: logged, nothing else runs.
ValidateFails ==
    /\ mainPc = "validate"
    /\ mainPc' = "failed"
    /\ UNCHANGED <<toolVars, slept_at, csv_files, intr, json_written, cfgVars, path_queue, unfinished_tasks, mainI, pc, cur, kids,
                   thread_lock, dataVars, processed_count, error_count, sleeps,
                   visits, enq, reports, errs, expiries>>

\* Mutant: the start path is put but the worker threads are never started.
StartWorkers_NotStarted ==
    /\ mainPc = "validate"
    /\ path_queue' = <<StartPath>>
    /\ unfinished_tasks' = 1
    /\ enq' = [enq EXCEPT ![StartPath] = @ + 1]
    /\ mainPc' = "join"
    /\ UNCHANGED <<toolVars, slept_at, csv_files, intr, json_written, cfgVars, mainI, pc, cur, kids, thread_lock, dataVars,
                   processed_count, error_count, sleeps, visits, reports, errs, expiries>>

\* validate_connection returns; the start path is put and the workers started.
StartWorkers ==
    /\ mainPc = "validate"
    /\ path_queue' = <<StartPath>>
    /\ unfinished_tasks' = 1
    /\ enq' = [enq EXCEPT ![StartPath] = @ + 1]
    /\ pc' = [w \in Workers |-> IF w <= worker_threads THEN "get" ELSE "off"]
    /\ mainPc' = "join"
    /\ UNCHANGED <<toolVars, slept_at, csv_files, intr, json_written, cfgVars, mainI, cur, kids, thread_lock, dataVars,
                   processed_count, error_count, sleeps, visits, reports, errs, expiries>>

\* path_queue.join() returns once unfinished_tasks is 0.
QueueJoin ==
    /\ mainPc = "join"
    /\ unfinished_tasks = 0
    /\ mainPc' = "sentinels"
    /\ mainI' = 0
    /\ UNCHANGED <<toolVars, slept_at, csv_files, intr, json_written, cfgVars, path_queue, unfinished_tasks, pc, cur, kids, thread_lock,
                   dataVars, processed_count, error_count, sleeps, visits, enq, reports, errs, expiries>>

\* for _ in workers: path_queue.put(None)
PutSentinel ==
    /\ mainPc = "sentinels"
    /\ path_queue' = Append(path_queue, Sentinel)
    /\ unfinished_tasks' = unfinished_tasks + 1
    /\ mainI' = mainI + 1
    /\ mainPc' = IF mainI + 1 = worker_threads THEN "joinworkers" ELSE "sentinels"
    /\ UNCHANGED <<toolVars, slept_at, csv_files, intr, json_written, cfgVars, pc, cur, kids, thread_lock, dataVars, processed_count,
                   error_count, sleeps, visits, enq, reports, errs, expiries>>

\* for worker in workers: worker.join(timeout=5) -- returns whether or not the
\* worker has ended.
JoinWorkers ==
    /\ mainPc = "joinworkers"
    /\ mainPc' = "write"
    /\ UNCHANGED <<toolVars, slept_at, csv_files, intr, json_written, cfgVars, path_queue, unfinished_tasks, mainI, pc, cur, kids,
                   thread_lock, dataVars, processed_count, error_count, sleeps,
                   visits, enq, reports, errs, expiries>>

\* stats.finish(); _write_reports: os.makedirs and the three write_json calls.
WriteJson ==
    /\ mainPc = "write"
    /\ json_written' = TRUE
    /\ mainPc' = "write_csv"
    /\ UNCHANGED <<toolVars, slept_at, csv_files, intr, cfgVars, path_queue, unfinished_tasks, mainI, pc, cur, kids,
                   thread_lock, dataVars, processed_count, error_count, sleeps,
                   visits, enq, errs, reports, expiries>>

\* The summaries the three writers produce: _write_namespace_summary returns
\* before writing when data.namespaces is empty, _write_item_summary when its
\* map gives no rows.
SummariesWritten ==
    (IF namespaces = {} THEN {} ELSE {"summary-namespaces"})
    \cup (IF auth_methods = {} THEN {} ELSE {"summary-auth-methods"})
    \cup (IF secret_engines = {} THEN {} ELSE {"summary-secrets-engines"})

\* _write_reports: the three CSV summaries; then _log_summary().
WriteReports ==
    /\ mainPc = "write_csv"
    /\ reports' = TRUE
    /\ csv_files' = SummariesWritten
    /\ mainPc' = "done"
    /\ UNCHANGED <<toolVars, slept_at, intr, json_written, cfgVars, path_queue, unfinished_tasks, mainI, pc, cur, kids,
                   thread_lock, dataVars, processed_count, error_count, sleeps,
                   visits, enq, errs, expiries>>

\* ------------------------------------------------------------- _worker
\* path_queue.get(timeout=300) returns an item.
Get(w) ==
    /\ pc[w] = "get"
    /\ path_queue # <<>>
    /\ path_queue' = Tail(path_queue)
    /\ cur' = [cur EXCEPT ![w] = Head(path_queue)]
    /\ pc' = [pc EXCEPT ![w] = IF Head(path_queue) = Sentinel THEN "td_exit" ELSE "rate"]
    /\ UNCHANGED <<toolVars, slept_at, csv_files, intr, json_written, cfgVars, unfinished_tasks, mainPc, mainI, kids, thread_lock,
                   dataVars, processed_count, error_count, sleeps, visits, enq, reports, errs, expiries>>

\* path_queue.get(timeout=300) raises queue.Empty: continue, through finally.
GetTimeout(w) ==
    /\ pc[w] = "get"
    /\ path_queue = <<>>
    /\ expiries < MaxExpiries
    /\ expiries' = expiries + 1
    /\ pc' = [pc EXCEPT ![w] = "td_empty"]
    /\ UNCHANGED <<toolVars, slept_at, csv_files, intr, json_written, cfgVars, path_queue, unfinished_tasks, mainPc, mainI, cur, kids,
                   thread_lock, dataVars, processed_count, error_count, sleeps,
                   visits, enq, errs, reports>>

\* Mutant: the processed_count > 0 test is missing.
ShouldSleep_NoPositiveTest ==
    /\ ~rate_limit_disable
    /\ processed_count % rate_limit_batch_size = 0

\* The rate-limit test of _worker, read without any lock.
ShouldSleep ==
    /\ ~rate_limit_disable
    /\ processed_count > 0
    /\ processed_count % rate_limit_batch_size = 0

\* Mutant: the worker takes thread_lock for the time of its sleep.
RateCheck_SleepLocked(w) ==
    /\ pc[w] = "rate"
    /\ ShouldSleep => thread_lock = 0
    /\ thread_lock' = IF ShouldSleep THEN w ELSE thread_lock
    /\ sleeps' = IF ShouldSleep THEN sleeps + 1 ELSE sleeps
    /\ slept_at' = IF ShouldSleep
                   THEN [slept_at EXCEPT ![processed_count] = @ + 1] ELSE slept_at
    /\ pc' = [pc EXCEPT ![w] = IF ShouldSleep THEN "sleep" ELSE "visit"]
    /\ UNCHANGED <<toolVars, csv_files, intr, json_written, cfgVars, path_queue, unfinished_tasks, mainPc, mainI, cur, kids,
                   dataVars, processed_count, error_count, visits, enq,
                   reports, errs, expiries>>

\* The rate-limit test; when it passes the worker enters time.sleep.
RateCheck(w) ==
    /\ pc[w] = "rate"
    /\ sleeps' = IF ShouldSleep THEN sleeps + 1 ELSE sleeps
    /\ slept_at' = IF ShouldSleep
                   THEN [slept_at EXCEPT ![processed_count] = @ + 1] ELSE slept_at
    /\ pc' = [pc EXCEPT ![w] = IF ShouldSleep THEN "sleep" ELSE "visit"]
    /\ UNCHANGED <<toolVars, csv_files, intr, json_written, cfgVars, path_queue, unfinished_tasks, mainPc, mainI, cur, kids,
                   thread_lock, dataVars, processed_count, error_count, visits, enq,
                   reports, errs, expiries>>

\* time.sleep(self.rate_limit_sleep_seconds) returns.
Sleep(w) ==
    /\ pc[w] = "sleep"
    /\ pc' = [pc EXCEPT ![w] = "visit"]
    /\ UNCHANGED <<toolVars, slept_at, csv_files, intr, json_written, cfgVars, path_queue, unfinished_tasks, mainPc, mainI, cur, kids,
                   thread_lock, dataVars, processed_count, error_count, sleeps, visits, enq,
                   reports, errs, expiries>>

\* _traverse_namespace up to the two mount listings.
Visit(w) ==
    /\ pc[w] = "visit"
    /\ visits' = [visits EXCEPT ![cur[w]] = @ + 1]
    /\ processed_count' = processed_count + 1
    /\ pc' = [pc EXCEPT ![w] = IF MountsFail(cur[w]) THEN "err" ELSE "store"]
    /\ UNCHANGED <<toolVars, slept_at, csv_files, intr, json_written, cfgVars, path_queue, unfinished_tasks, mainPc, mainI, cur, kids,
                   thread_lock, dataVars, error_count, sleeps, enq, reports, errs, expiries>>

\* Mutant: the handler counts the error and raises it again into _worker.
VisitError_Reraises(w) ==
    /\ pc[w] = "err"
    /\ error_count' = error_count + 1
    /\ errs' = [errs EXCEPT ![cur[w]] = @ + 1]
    /\ pc' = [pc EXCEPT ![w] = "werr"]
    /\ UNCHANGED <<toolVars, slept_at, csv_files, intr, json_written, cfgVars, path_queue, unfinished_tasks, mainPc, mainI, cur, kids,
                   thread_lock, dataVars, processed_count, sleeps, visits, enq, reports, expiries>>

\* except Forbidden / except Exception of _traverse_namespace.
VisitError(w) ==
    /\ pc[w] = "err"
    /\ error_count' = error_count + 1
    /\ errs' = [errs EXCEPT ![cur[w]] = @ + 1]
    /\ pc' = [pc EXCEPT ![w] = "td_visit"]
    /\ UNCHANGED <<toolVars, slept_at, csv_files, intr, json_written, cfgVars, path_queue, unfinished_tasks, mainPc, mainI, cur, kids,
                   thread_lock, dataVars, processed_count, sleeps, visits, enq, reports, expiries>>

\* Mutant: data.auth_methods is written without taking thread_lock.
StoreAuth_Unlocked(w) ==
    /\ pc[w] = "store"
    /\ auth_methods' = auth_methods \cup {cur[w]}
    /\ pc' = [pc EXCEPT ![w] = "store2"]
    /\ UNCHANGED <<toolVars, slept_at, csv_files, intr, json_written, cfgVars, path_queue, unfinished_tasks, mainPc, mainI, cur, kids,
                   thread_lock, secret_engines, namespaces, processed_count,
                   error_count, sleeps, visits, enq, errs, reports, expiries>>

\* with self.thread_lock: data.auth_methods[p] = ...
StoreAuth(w) ==
    /\ pc[w] = "store"
    /\ thread_lock = 0
    /\ thread_lock' = w
    /\ auth_methods' = auth_methods \cup {cur[w]}
    /\ pc' = [pc EXCEPT ![w] = "store2"]
    /\ UNCHANGED <<toolVars, slept_at, csv_files, intr, json_written, cfgVars, path_queue, unfinished_tasks, mainPc, mainI, cur, kids,
                   secret_engines, namespaces, processed_count, error_count, sleeps,
                   visits, enq, reports, errs, expiries>>

\* ... data.secret_engines[p] = ...; the lock is released; list_namespaces.
StoreSecrets(w) ==
    /\ pc[w] = "store2"
    /\ thread_lock' = 0
    /\ secret_engines' = secret_engines \cup {cur[w]}
    /\ kids' = [kids EXCEPT ![w] = ListedChildren(cur[w])]
    /\ pc' = [pc EXCEPT ![w] =
                IF NsFail(cur[w]) THEN "err"
                ELSE IF ListedChildren(cur[w]) = <<>> THEN "td_visit"
                ELSE "put"]
    /\ UNCHANGED <<toolVars, slept_at, csv_files, intr, json_written, cfgVars, path_queue, unfinished_tasks, mainPc, mainI, cur,
                   auth_methods, namespaces, processed_count, error_count, sleeps,
                   visits, enq, reports, errs, expiries>>

\* path_queue.put(child_path_full)
PutChild(w) ==
    /\ pc[w] = "put"
    /\ path_queue' = Append(path_queue, Head(kids[w]))
    /\ unfinished_tasks' = unfinished_tasks + 1
    /\ enq' = [enq EXCEPT ![Head(kids[w])] = @ + 1]
    /\ pc' = [pc EXCEPT ![w] = "record"]
    /\ UNCHANGED <<toolVars, slept_at, csv_files, intr, json_written, cfgVars, mainPc, mainI, cur, kids, thread_lock, dataVars,
                   processed_count, error_count, sleeps, visits, reports, errs, expiries>>

\* with self.thread_lock: data.namespaces[child.rstrip('/')] = info
RecordChild(w) ==
    /\ pc[w] = "record"
    /\ thread_lock = 0
    /\ namespaces' = namespaces \cup {Head(kids[w])}
    /\ kids' = [kids EXCEPT ![w] = Tail(@)]
    /\ pc' = [pc EXCEPT ![w] = IF Tail(kids[w]) = <<>> THEN "td_visit" ELSE "put"]
    /\ UNCHANGED <<toolVars, slept_at, csv_files, intr, json_written, cfgVars, path_queue, unfinished_tasks, mainPc, mainI, cur,
                   thread_lock, auth_methods, secret_engines, processed_count,
                   error_count, sleeps, visits, enq, reports, errs, expiries>>

\* Where the loop goes after finally: path_queue.task_done().
AfterTaskDone(p) == IF p = "td_exit" THEN "exited" ELSE "get"

\* finally: path_queue.task_done() -- raises ValueError, which ends the thread,
\* when unfinished_tasks is already 0.
TaskDone(w) ==
    /\ pc[w] \in {"td_visit", "td_exit", "td_empty", "td_raise"}
    /\ IF unfinished_tasks = 0
       THEN /\ pc' = [pc EXCEPT ![w] = "dead"]
            /\ UNCHANGED unfinished_tasks
       ELSE /\ pc' = [pc EXCEPT ![w] = AfterTaskDone(pc[w])]
            /\ unfinished_tasks' = unfinished_tasks - 1
    /\ cur' = [cur EXCEPT ![w] = 0]       \* the item in hand is not used again
    /\ UNCHANGED <<toolVars, slept_at, csv_files, intr, json_written, cfgVars, path_queue, mainPc, mainI, kids, thread_lock,
                   dataVars, processed_count, error_count, sleeps, visits, enq, reports, errs, expiries>>

WorkerStep(w) ==
    \/ Get(w)
    \/ GetTimeout(w)
    \/ RateCheck(w)
    \/ Sleep(w)
    \/ Visit(w)
    \/ VisitError(w)
    \/ StoreAuth(w)
    \/ StoreSecrets(w)
    \/ PutChild(w)
    \/ RecordChild(w)
    \/ TaskDone(w)

Next ==
    \/ ValidateFails
    \/ StartWorkers
    \/ QueueJoin
    \/ PutSentinel
    \/ JoinWorkers
    \/ WriteJson
    \/ WriteReports
    \/ \E w \in Workers : WorkerStep(w)

Spec == Init /\ [][Next]_vars

MainStep ==
    \/ ValidateFails
    \/ StartWorkers
    \/ QueueJoin
    \/ PutSentinel
    \/ JoinWorkers
    \/ WriteJson
    \/ WriteReports

\* Every thread that can take a step eventually takes one; a dequeue wait on an
\* empty queue ends by an item arriving or by the timeout.
FairSpec ==
    /\ Spec
    /\ WF_vars(MainStep)
    /\ \A w \in Workers : WF_vars(WorkerStep(w))

\* ------------------------------------------------------------ vocabulary
Started == {w \in Workers : w <= worker_threads}

\* Worker w has dequeued a path and its visit has not returned yet.
InVisit(w) == pc[w] \in {"rate", "sleep", "visit", "err", "store", "store2", "put", "record"}

LeftLoop(w) == pc[w] \in {"off", "exited", "dead"}

QueuedPaths == {path_queue[i] : i \in 1..Len(path_queue)} \ {Sentinel}

\* No path waits in the queue and no worker is inside a visit.
Drained == QueuedPaths = {} /\ \A w \in Workers : ~InVisit(w)

\* audit_cluster has returned after writing and every thread has ended.
AuditOver == mainPc = "done" /\ \A w \in Workers : LeftLoop(w)

\* The paths a complete run from StartPath visits, and what it stores.
ExpVisited == {n \in Nodes : Listable(parent, resp, n)}

ExpMounts == {n \in ExpVisited : resp[n] \notin {"forbidden", "error"}}

ExpErrors == Cardinality({n \in ExpVisited : resp[n] \in {"forbidden", "error", "ns_forbidden"}})

\* The auditor at rest, for the models below that do not run it.
AuditIdle ==
    /\ parent = [n \in Nodes \ {StartPath} |-> StartPath]
    /\ resp = [n \in Nodes |-> "ok"]
    /\ worker_threads = 1
    /\ rate_limit_disable = TRUE
    /\ rate_limit_batch_size = MaxBatch
    /\ path_queue = <<>>
    /\ unfinished_tasks = 0
    /\ mainPc = "off"
    /\ mainI = 0
    /\ pc = [w \in Workers |-> "off"]
    /\ cur = [w \in Workers |-> 0]
    /\ kids = [w \in Workers |-> <<>>]
    /\ thread_lock = 0
    /\ auth_methods = {}
    /\ secret_engines = {}
    /\ namespaces = {}
    /\ processed_count = 0
    /\ error_count = 0
    /\ sleeps = 0
    /\ visits = [n \in Nodes |-> 0]
    /\ enq = [n \in Nodes |-> 0]
    /\ errs = [n \in Nodes |-> 0]
    /\ reports = FALSE
    /\ expiries = 0
    /\ json_written = FALSE
    /\ intr = "none"
    /\ csv_files = {}
    /\ slept_at = [c \in Nodes |-> 0]

\* =================================================== paths as strings
\* A path is a sequence of characters.  Python's None is the value below.
None == <<"None">>

NsA == <<"a", "/">>

NsB == <<"b", "/">>

NsAb == <<"a", "b", "/">>

NsAB == <<"a", "/", "b", "/">>

\* The values -n is given on the command line.
StartArgs == {<<>>, <<"/">>, <<"a">>, NsA}

\* The child names the Server can list, in the order of key_info.
NameOrder == <<NsA, NsAb, NsB>>

\* The namespaces the Server may hold besides the root.
Candidates == {NsA, NsB, NsAb, NsAB}

\* args.namespace when -n is absent: namespace-audit declares default="",
\* the all subcommand declares no default.
ArgDefault(cmd) == IF cmd = "namespace-audit" THEN <<>> ELSE None

\* initial_namespace of audit_cluster.
initial_namespace(namespace_path) ==
    IF namespace_path # <<"/">> THEN namespace_path ELSE <<>>

\* Mutant: rstrip leaves its argument as it is.
rstrip_Keep(str) == str

\* str.rstrip('/'): the longest prefix that does not end in '/'.
rstrip(str) ==
    LET k == CHOOSE i \in 0..Len(str) :
                 /\ i = 0 \/ str[i] # "/"
                 /\ \A j \in (i + 1)..Len(str) : str[j] = "/"
    IN  SubSeq(str, 1, k)

\* stored_namespace_path of _traverse_namespace.
stored_namespace_path(namespace_path) ==
    IF namespace_path # <<>> THEN rstrip(namespace_path) ELSE <<>>

\* The namespace the Server resolves a request's namespace header to: it reads
\* the header without trailing slashes and with one '/' appended.
Canonical(header) ==
    IF rstrip(header) = <<>> THEN <<>> ELSE Append(rstrip(header), "/")

\* key_info of list_namespaces in namespace c, as a sequence of child names.
KeyInfo(c) == SelectSeq(NameOrder, LAMBDA n : (c \o n) \in s_live)

PathInit ==
    /\ s_command \in {"namespace-audit", "all"}
    /\ s_given \in BOOLEAN
    /\ s_namespace \in (IF s_given THEN StartArgs ELSE {ArgDefault(s_command)})
    /\ s_live \in {L \in SUBSET Candidates : NsAB \in L => NsA \in L}
    /\ s_pc = "start"
    /\ s_path_queue = <<>>
    /\ s_auth_methods = {}
    /\ s_secret_engines = {}
    /\ s_namespaces = {}
    /\ s_processed_count = 0
    /\ s_error_count = 0
    /\ s_stored = {}
    /\ s_children = {}

\* audit_cluster: path_queue.put(initial_namespace); the worker is started.
PathStart ==
    /\ s_pc = "start"
    /\ s_path_queue' = <<initial_namespace(s_namespace)>>
    /\ s_pc' = "get"
    /\ UNCHANGED <<s_command, s_given, s_namespace, s_live, s_auth_methods,
                   s_secret_engines, s_namespaces, s_processed_count, s_error_count,
                   s_stored, s_children>>

\* _worker: the item is None, the loop is left.
PathGetNone ==
    /\ s_pc = "get"
    /\ s_path_queue # <<>>
    /\ Head(s_path_queue) = None
    /\ s_path_queue' = Tail(s_path_queue)
    /\ s_pc' = "exited"
    /\ UNCHANGED <<s_command, s_given, s_namespace, s_live, s_auth_methods,
                   s_secret_engines, s_namespaces, s_processed_count, s_error_count,
                   s_stored, s_children>>

\* _worker takes a path and _traverse_namespace visits it: the mounts are
\* stored, every listed child is put on the queue and recorded.  A namespace
\* the Server does not hold makes the mount listing fail.
PathVisit ==
    /\ s_pc = "get"
    /\ s_path_queue # <<>>
    /\ Head(s_path_queue) # None
    /\ LET namespace_path == Head(s_path_queue)
           c == Canonical(namespace_path)
           names == KeyInfo(c)
           idx == 1..Len(names)
       IN  /\ s_processed_count' = s_processed_count + 1
           /\ IF c # <<>> /\ c \notin s_live
              THEN /\ s_error_count' = s_error_count + 1
                   /\ s_path_queue' = Tail(s_path_queue)
                   /\ UNCHANGED <<s_auth_methods, s_secret_engines, s_namespaces,
                                  s_stored, s_children>>
              ELSE /\ s_auth_methods' =
                         s_auth_methods \cup {stored_namespace_path(namespace_path)}
                   /\ s_secret_engines' =
                         s_secret_engines \cup {stored_namespace_path(namespace_path)}
                   /\ s_stored' = s_stored \cup
                         {[path |-> namespace_path,
                           key |-> stored_namespace_path(namespace_path)]}
                   /\ s_path_queue' = Tail(s_path_queue) \o
                         [i \in idx |-> namespace_path \o names[i]]
                   /\ s_namespaces' = s_namespaces \cup
                         {rstrip(namespace_path \o names[i]) : i \in idx}
                   /\ s_children' = s_children \cup
                         {[parent |-> namespace_path,
                           name |-> names[i],
                           put |-> namespace_path \o names[i],
                           key |-> rstrip(namespace_path \o names[i])] : i \in idx}
                   /\ UNCHANGED s_error_count
    /\ UNCHANGED <<s_command, s_given, s_namespace, s_live, s_pc>>

\* path_queue.join() returns, the sentinel is put, the reports are written.
PathFinish ==
    /\ s_pc \in {"get", "exited"}
    /\ s_path_queue = <<>>
    /\ s_pc' = "done"
    /\ UNCHANGED <<s_command, s_given, s_namespace, s_live, s_path_queue,
                   s_auth_methods, s_secret_engines, s_namespaces, s_processed_count,
                   s_error_count, s_stored, s_children>>

PathNext ==
    \/ PathStart /\ UNCHANGED <<auditVars, cliVars, exportVars, laterVars>>
    \/ PathGetNone /\ UNCHANGED <<auditVars, cliVars, exportVars, laterVars>>
    \/ PathVisit /\ UNCHANGED <<auditVars, cliVars, exportVars, laterVars>>
    \/ PathFinish /\ UNCHANGED <<auditVars, cliVars, exportVars, laterVars>>

InitPath == PathInit /\ AuditIdle /\ CliIdle /\ ExportIdle /\ LaterIdle

PathSpec == InitPath /\ [][PathNext]_vars

\* =================================================== the command line
\* A date argument as typed: year, separator, month, day.
DateArgs ==
    {<<2024, "-", 2, 29>>, <<2023, "-", 2, 29>>, <<2024, "-", 13, 1>>,
     <<2024, "/", 1, 1>>, <<2023, "-", 12, 31>>}

Leap(y) == (y % 4 = 0 /\ y % 100 # 0) \/ y % 400 = 0

DaysIn(y, m) ==
    IF m = 2 THEN (IF Leap(y) THEN 29 ELSE 28)
    ELSE IF m \in {4, 6, 9, 11} THEN 30 ELSE 31

\* validate_date_format: datetime.strptime(date_str, "%Y-%m-%d") succeeds.
validate_date_format(date_str) ==
    /\ date_str[2] = "-"
    /\ date_str[1] \in 1..9999
    /\ date_str[3] \in 1..12
    /\ date_str[4] \in 1..DaysIn(date_str[1], date_str[3])

\* The exit status of a Python process ended by an uncaught KeyboardInterrupt:
\* 1, or 130 where the interpreter ends itself with SIGINT.
InterruptExit == {1, 130}

Commands == {"namespace-audit", "activity-export", "entity-export", "all"}

CliInit ==
    /\ command \in Commands
    /\ vault_addr \in BOOLEAN
    /\ vault_token \in BOOLEAN
    /\ start_date \in DateArgs
    /\ end_date \in DateArgs
    /\ cli_pc = "client"
    /\ exit_code = 0
    /\ requests_sent = 0
    /\ files_written = FALSE
    /\ conn_failed = FALSE
    /\ ns_failed = FALSE
    /\ export_failed = FALSE
    /\ interrupted = FALSE

\* create_vault_client: sys.exit(1) when VAULT_ADDR or VAULT_TOKEN is missing.
create_vault_client ==
    /\ cli_pc = "client"
    /\ IF ~vault_addr \/ ~vault_token
       THEN cli_pc' = "exit" /\ exit_code' = 1
       ELSE /\ cli_pc' = IF command = "namespace-audit" THEN "audit" ELSE "validate"
            /\ UNCHANGED exit_code
    /\ UNCHANGED <<command, vault_addr, vault_token, start_date, end_date,
                   requests_sent, files_written, conn_failed, ns_failed,
                   export_failed, interrupted>>

\* vault_client.validate_connection() called by main: VaultConnectionError is
\* not caught there and ends the process with status 1.
validate_connection ==
    /\ cli_pc = "validate"
    /\ \E ok \in BOOLEAN :
          IF ok
          THEN /\ cli_pc' = CASE command = "activity-export" -> "activity"
                              [] command = "entity-export" -> "entity"
                              [] OTHER -> "audit"
               /\ UNCHANGED <<exit_code, conn_failed>>
          ELSE /\ cli_pc' = "exit"
               /\ exit_code' = 1
               /\ conn_failed' = TRUE
    /\ UNCHANGED <<command, vault_addr, vault_token, start_date, end_date,
                   requests_sent, files_written, ns_failed, export_failed, interrupted>>

\* auditor.audit_cluster(args.namespace) as main sees it: it returns normally
\* after a complete run (with or without failed namespaces) and also after a
\* failed validate_connection, which it logs; a KeyboardInterrupt leaves it.
audit_cluster ==
    /\ cli_pc = "audit"
    /\ \E outcome \in {"ok", "ns_errors", "conn_fail", "interrupt"} :
          /\ files_written' = (files_written \/ outcome \in {"ok", "ns_errors"})
          /\ ns_failed' = (ns_failed \/ outcome = "ns_errors")
          /\ conn_failed' = (conn_failed \/ outcome = "conn_fail")
          /\ interrupted' = (outcome = "interrupt")
          /\ IF outcome = "interrupt"
             THEN cli_pc' = "exit" /\ exit_code' \in InterruptExit
             ELSE IF command = "namespace-audit"
             THEN cli_pc' = "exit" /\ exit_code' = 0
             ELSE cli_pc' = "activity" /\ UNCHANGED exit_code
    /\ UNCHANGED <<command, vault_addr, vault_token, start_date, end_date,
                   requests_sent, export_failed>>

\* The Server answers an export request whose dates are not both valid with
\* an error; it may answer any request with an error.
ServerAnswers == IF validate_date_format(start_date) /\ validate_date_format(end_date)
                 THEN {"ok", "error"} ELSE {"error"}

\* run_activity_export: the request is sent with the dates as typed; an error
\* answer is raised through main and ends the process with status 1.
run_activity_export ==
    /\ cli_pc = "activity"
    /\ requests_sent' = requests_sent + 1
    /\ \E answer \in ServerAnswers :
          IF answer = "ok"
          THEN /\ files_written' = TRUE
               /\ IF command = "all"
                  THEN cli_pc' = "entity" /\ UNCHANGED exit_code
                  ELSE cli_pc' = "exit" /\ exit_code' = 0
               /\ UNCHANGED export_failed
          ELSE /\ cli_pc' = "exit"
               /\ exit_code' = 1
               /\ export_failed' = TRUE
               /\ UNCHANGED files_written
    /\ UNCHANGED <<command, vault_addr, vault_token, start_date, end_date,
                   conn_failed, ns_failed, interrupted>>

\* run_entity_export, in the same way; it is the last step of every command
\* that runs it.
run_entity_export ==
    /\ cli_pc = "entity"
    /\ requests_sent' = requests_sent + 1
    /\ \E answer \in ServerAnswers :
          IF answer = "ok"
          THEN /\ files_written' = TRUE
               /\ cli_pc' = "exit"
               /\ exit_code' = 0
               /\ UNCHANGED export_failed
          ELSE /\ cli_pc' = "exit"
               /\ exit_code' = 1
               /\ export_failed' = TRUE
               /\ UNCHANGED files_written
    /\ UNCHANGED <<command, vault_addr, vault_token, start_date, end_date,
                   conn_failed, ns_failed, interrupted>>

CliNext ==
    \/ create_vault_client /\ UNCHANGED <<auditVars, pathVars, exportVars, laterVars>>
    \/ validate_connection /\ UNCHANGED <<auditVars, pathVars, exportVars, laterVars>>
    \/ audit_cluster /\ UNCHANGED <<auditVars, pathVars, exportVars, laterVars>>
    \/ run_activity_export /\ UNCHANGED <<auditVars, pathVars, exportVars, laterVars>>
    \/ run_entity_export /\ UNCHANGED <<auditVars, pathVars, exportVars, laterVars>>

InitCli == CliInit /\ AuditIdle /\ PathIdle /\ ExportIdle /\ LaterIdle

CliSpec == InitCli /\ [][CliNext]_vars

\* =================================================== the two exporters
\* Decoded JSON objects are records; a key the Server left out is a field the
\* record does not have.
CountsFull == [clients |-> 5, entity_clients |-> 4, non_entity_clients |-> 1]

CountsPartial == [clients |-> 3]

MountFull == [mount_path |-> "auth/token/", counts |-> CountsFull]

MountNoCounts == [mount_path |-> "secret/"]

MountNoPath == [counts |-> CountsPartial]

\* Entries of by_namespace.
NsEntries ==
    {[namespace_id |-> "root", namespace_path |-> "", counts |-> CountsFull,
      mounts |-> <<MountFull, MountNoCounts>>],
     [namespace_id |-> "ns1", namespace_path |-> "ns1/", counts |-> CountsPartial,
      mounts |-> <<MountNoPath>>],
     [namespace_id |-> "root", mounts |-> <<MountNoPath>>],
     [namespace_id |-> "ns1", namespace_path |-> ""],
     [namespace_id |-> "root", namespace_path |-> "ns1/", mounts |-> <<>>],
     [namespace_path |-> "ns1/", counts |-> CountsFull]}

\* Records of the activity export endpoint.
EntityRecords ==
    {[client_id |-> "c1", client_type |-> "entity",
      namespace_id |-> "root", namespace_path |-> ""],
     [client_id |-> "c2", client_type |-> "non-entity-token",
      namespace_id |-> "ns1", namespace_path |-> "ns1/"],
     [client_id |-> "c3"],
     [client_id |-> "c4", client_type |-> "entity"],
     [client_id |-> "c5", client_type |-> "entity", namespace_id |-> "root"],
     [client_id |-> "c6", client_type |-> "entity",
      namespace_id |-> "ns1", namespace_path |-> ""]}

BoundedSeq(S, n) == UNION {[1..k -> S] : k \in 0..n}

\* dict.get(k, default)
DictGet(d, k, default) == IF k \in DOMAIN d THEN d[k] ELSE default

\* d.get("counts", {}).get(k, 0)
CountOf(d, k) == IF "counts" \in DOMAIN d THEN DictGet(d.counts, k, 0) ELSE 0

\* Mutant: an empty path is rewritten whatever the namespace_id.
RootPath_AnyId(ns_id, ns_path) == IF ns_path = "" THEN "root/" ELSE ns_path

\* ns_path after: if ns_id == "root" and ns_path == "": ns_path = "root/"
RootPath(ns_id, ns_path) ==
    IF ns_id = "root" /\ ns_path = "" THEN "root/" ELSE ns_path

\* Mutant: the mounts field is a flag, not the length of the list.
NsRow_MountsFlag(namespace) ==
    [namespace_id |-> DictGet(namespace, "namespace_id", ""),
     namespace_path |-> RootPath(DictGet(namespace, "namespace_id", ""),
                                 DictGet(namespace, "namespace_path", "")),
     mounts |-> IF DictGet(namespace, "mounts", <<>>) = <<>> THEN 0 ELSE 1,
     clients |-> CountOf(namespace, "clients"),
     entity_clients |-> CountOf(namespace, "entity_clients"),
     non_entity_clients |-> CountOf(namespace, "non_entity_clients")]

\* The row appended to namespaces_data for one entry of by_namespace.
NsRow(namespace) ==
    [namespace_id |-> DictGet(namespace, "namespace_id", ""),
     namespace_path |-> RootPath(DictGet(namespace, "namespace_id", ""),
                                 DictGet(namespace, "namespace_path", "")),
     mounts |-> Len(DictGet(namespace, "mounts", <<>>)),
     clients |-> CountOf(namespace, "clients"),
     entity_clients |-> CountOf(namespace, "entity_clients"),
     non_entity_clients |-> CountOf(namespace, "non_entity_clients")]

\* The row appended to mounts_data for one mount of an entry.
MountRow(namespace, mount) ==
    [namespace_id |-> DictGet(namespace, "namespace_id", ""),
     namespace_path |-> RootPath(DictGet(namespace, "namespace_id", ""),
                                 DictGet(namespace, "namespace_path", "")),
     mount_path |-> DictGet(mount, "mount_path", ""),
     clients |-> CountOf(mount, "clients"),
     entity_clients |-> CountOf(mount, "entity_clients"),
     non_entity_clients |-> CountOf(mount, "non_entity_clients")]

\* The rows the inner loop appends for one entry.
MountRows(namespace) ==
    [j \in 1..Len(DictGet(namespace, "mounts", <<>>)) |->
        MountRow(namespace, DictGet(namespace, "mounts", <<>>)[j])]

\* mounts_data after the loop over by_namespace.
RECURSIVE AllMountRows(_)
AllMountRows(by_namespace) ==
    IF by_namespace = <<>> THEN <<>>
    ELSE MountRows(Head(by_namespace)) \o AllMountRows(Tail(by_namespace))

\* How many rows mounts_data holds when the loop reaches entry i of by_namespace.
RECURSIVE MountsBefore(_, _)
MountsBefore(by_namespace, i) ==
    IF i <= 1 THEN 0
    ELSE MountsBefore(by_namespace, i - 1)
         + Len(DictGet(by_namespace[i - 1], "mounts", <<>>))

\* The activity export has built its rows.
ActivityProcessed == export = "activity" /\ x_pc \in {"json", "csv", "csv2", "end"} /\ ~raised

\* pd.DataFrame(data).columns: every key of every record.
Columns(records) == UNION {DOMAIN records[i] : i \in 1..Len(records)}

\* A cell of the DataFrame; a key the record lacks is NaN.
Cell(record, c) == IF c \in DOMAIN record THEN record[c] ELSE "NaN"

\* One row of df after entity_type is added and the root path is rewritten.
EntityRow(record, cols) ==
    [c \in cols \cup {"entity_type"} |->
        IF c = "entity_type" THEN Cell(record, "client_type")
        ELSE IF /\ c = "namespace_path"
                /\ "namespace_id" \in cols
                /\ Cell(record, "namespace_id") = "root"
                /\ Cell(record, "namespace_path") = ""
             THEN "root/"
             ELSE Cell(record, c)]

ExportInit ==
    /\ export \in {"activity", "entity"}
    /\ data \in (IF export = "activity" THEN BoundedSeq(NsEntries, MaxRecords)
                 ELSE BoundedSeq(EntityRecords, MaxRecords))
    /\ x_pc = "fetch"
    /\ namespaces_data = <<>>
    /\ mounts_data = <<>>
    /\ df = <<>>
    /\ df_columns = {}
    /\ files = {}
    /\ failed = FALSE
    /\ raised = FALSE

\* get_activity_data / get_entity_export_data: client.get returns the data or
\* raises, and the exception leaves run_*_export.
Fetch ==
    /\ x_pc = "fetch"
    /\ \E ok \in BOOLEAN :
          IF ok
          THEN x_pc' = "process" /\ UNCHANGED <<failed, raised>>
          ELSE x_pc' = "end" /\ failed' = TRUE /\ raised' = TRUE
    /\ UNCHANGED <<export, data, namespaces_data, mounts_data, df, df_columns, files>>

\* process_activity_data up to the rows.
process_activity_data ==
    /\ x_pc = "process"
    /\ export = "activity"
    /\ namespaces_data' = [i \in 1..Len(data) |-> NsRow(data[i])]
    /\ mounts_data' = AllMountRows(data)
    /\ x_pc' = "json"
    /\ UNCHANGED <<export, data, df, df_columns, files, failed, raised>>

\* process_entity_export_data up to the DataFrame: it returns None for an empty
\* list and for records without a client_type column.
process_entity_export_data ==
    /\ x_pc = "process"
    /\ export = "entity"
    /\ IF data = <<>> \/ "client_type" \notin Columns(data)
       THEN x_pc' = "end" /\ UNCHANGED <<df, df_columns>>
       ELSE /\ df' = [i \in 1..Len(data) |-> EntityRow(data[i], Columns(data))]
            /\ df_columns' = Columns(data) \cup {"entity_type"}
            /\ x_pc' = "json"
    /\ UNCHANGED <<export, data, namespaces_data, mounts_data, files, failed, raised>>

\* write_json: an IOError becomes FileProcessingError, which the exporter
\* catches and logs before it returns.
write_json ==
    /\ x_pc = "json"
    /\ \E ok \in BOOLEAN :
          IF ok
          THEN x_pc' = "csv" /\ files' = files \cup {"json"} /\ UNCHANGED failed
          ELSE x_pc' = "end" /\ failed' = TRUE /\ UNCHANGED files
    /\ UNCHANGED <<export, data, namespaces_data, mounts_data, df, df_columns, raised>>

\* write_csv: the namespaces CSV and then the mounts CSV of the activity
\* export, the one CSV of the entity export; failure as for write_json.
write_csv ==
    /\ x_pc \in {"csv", "csv2"}
    /\ \E ok \in BOOLEAN :
          IF ok
          THEN /\ files' = files \cup
                     {IF export = "entity" THEN "csv"
                      ELSE IF x_pc = "csv" THEN "namespaces_csv" ELSE "mounts_csv"}
               /\ x_pc' = IF export = "activity" /\ x_pc = "csv" THEN "csv2" ELSE "end"
               /\ UNCHANGED failed
          ELSE x_pc' = "end" /\ failed' = TRUE /\ UNCHANGED files
    /\ UNCHANGED <<export, data, namespaces_data, mounts_data, df, df_columns, raised>>

ExportNext ==
    \/ Fetch /\ UNCHANGED <<auditVars, pathVars, cliVars, laterVars>>
    \/ process_activity_data /\ UNCHANGED <<auditVars, pathVars, cliVars, laterVars>>
    \/ process_entity_export_data /\ UNCHANGED <<auditVars, pathVars, cliVars, laterVars>>
    \/ write_json /\ UNCHANGED <<auditVars, pathVars, cliVars, laterVars>>
    \/ write_csv /\ UNCHANGED <<auditVars, pathVars, cliVars, laterVars>>

InitExport == ExportInit /\ AuditIdle /\ PathIdle /\ CliIdle /\ LaterIdle

ExportSpec == InitExport /\ [][ExportNext]_vars

\* ------------------------------------------------------- user interrupt
\* A KeyboardInterrupt is raised in the main thread while audit_cluster runs.
\* It is caught by neither except clause, so audit_cluster is left at once; the
\* worker threads go on.
Interrupt ==
    /\ mainPc \in {"validate", "join", "sentinels", "joinworkers", "write", "write_csv"}
    /\ intr' = IF mainPc \in {"validate", "join"} \/ ~Drained THEN "undrained" ELSE "drained"
    /\ mainPc' = "interrupted"
    /\ UNCHANGED <<toolVars, slept_at, csv_files, json_written, cfgVars, path_queue, unfinished_tasks, mainI, pc, cur, kids,
                   thread_lock, dataVars, processed_count, error_count, sleeps,
                   visits, enq, errs, reports, expiries>>

NextI == Next \/ Interrupt

\* The auditor in an environment where the user may interrupt the run.
SpecI == Init /\ [][NextI]_vars

\* _traverse_namespace raises into _worker: an exception from the part of the
\* visit that no handler of _traverse_namespace covers (as the mocked visit of
\* test_worker_error_handling does), before the visit has changed anything.
VisitRaises(w) ==
    /\ pc[w] = "visit"
    /\ pc' = [pc EXCEPT ![w] = "werr"]
    /\ UNCHANGED <<toolVars, slept_at, csv_files, intr, json_written, cfgVars, path_queue, unfinished_tasks, mainPc,
                   mainI, cur, kids, thread_lock, dataVars, processed_count, error_count,
                   sleeps, visits, enq, reports, errs, expiries>>

\* except Exception of _worker: logged, self.stats.increment_errors().
WorkerError(w) ==
    /\ pc[w] = "werr"
    /\ error_count' = error_count + 1
    /\ errs' = [errs EXCEPT ![cur[w]] = @ + 1]
    /\ pc' = [pc EXCEPT ![w] = "td_raise"]
    /\ UNCHANGED <<toolVars, slept_at, csv_files, intr, json_written, cfgVars, path_queue, unfinished_tasks, mainPc,
                   mainI, cur, kids, thread_lock, dataVars, processed_count, sleeps, visits,
                   enq, reports, expiries>>

NextR ==
    \/ Next
    \/ \E w \in Workers : VisitRaises(w)
    \/ \E w \in Workers : WorkerError(w)

\* The auditor in an environment where a visit may raise into the worker.
SpecR == Init /\ [][NextR]_vars

\* ============================================== _write_item_summary
\* The mount types the Server reports.
SumTypes == {"kv", "pki"}

\* One mount of a listing: its 'type', which may be empty or missing.
ItemData == {[type |-> t] : t \in SumTypes \cup {""}} \cup {[description |-> "x"]}

\* The keys of a mount map: the stored paths of the visited namespaces.
SumKeys == {"", "a"}

\* A mount map, in the order of its keys.
MountMaps ==
    {d \in BoundedSeq([namespace : SumKeys, items : BoundedSeq(ItemData, MaxMounts)],
                      Cardinality(SumKeys)) :
        \A i, j \in DOMAIN d : i # j => d[i].namespace # d[j].namespace}

\* for item_name, item_data in items.items(): type_key = item_data.get('type');
\* if type_key: row[type_key] = row.get(type_key, 0) + 1.  A missing type is
\* read as None, which like '' is not counted.
RECURSIVE CountTypes(_, _)
CountTypes(row, items) ==
    IF items = <<>> THEN row
    ELSE LET type_key == DictGet(Head(items), "type", "")
         IN  CountTypes(IF type_key # ""
                        THEN [t \in DOMAIN row \cup {type_key} |->
                                 IF t = type_key THEN DictGet(row, t, 0) + 1 ELSE row[t]]
                        ELSE row,
                        Tail(items))

\* rows: one dict per key, {'namespace': key} and the counts of its types.
SumRows(d) ==
    [i \in DOMAIN d |->
        [namespace |-> d[i].namespace,
         counts |-> CountTypes([t \in {} |-> 0], d[i].items)]]

\* pd.DataFrame(rows): a column for every key of any row, NaN where a row has
\* no such key; a column holding a NaN is float64, any other count is int64.
DataFrame(rows) ==
    LET cols == UNION {DOMAIN rows[i].counts : i \in DOMAIN rows}
    IN  [columns |-> cols,
         dtype |-> [t \in cols |->
                       IF \E i \in DOMAIN rows : t \notin DOMAIN rows[i].counts
                       THEN "float64" ELSE "int64"],
         cells |-> [i \in DOMAIN rows |->
                       [namespace |-> rows[i].namespace,
                        counts |-> [t \in cols |->
                                       IF t \in DOMAIN rows[i].counts
                                       THEN [nan |-> FALSE, n |-> rows[i].counts[t]]
                                       ELSE [nan |-> TRUE, n |-> 0]]]]]

\* Mutant: the missing cells are left as NaN.
fillna_Skip(frame) == frame

\* df.fillna(0)
fillna(frame) ==
    [frame EXCEPT !.cells =
        [i \in DOMAIN frame.cells |->
            [frame.cells[i] EXCEPT !.counts =
                [t \in frame.columns |->
                    IF frame.cells[i].counts[t].nan
                    THEN [nan |-> FALSE, n |-> 0]
                    ELSE frame.cells[i].counts[t]]]]]

\* astype('int64') raises when a column still holds a NaN.
CastRaises(frame) ==
    \E i \in DOMAIN frame.cells : \E t \in frame.columns :
        frame.dtype[t] = "float64" /\ frame.cells[i].counts[t].nan

\* df[numeric_columns] = df[numeric_columns].astype('int64')
astype_int64(frame) ==
    [frame EXCEPT !.dtype = [t \in frame.columns |-> "int64"]]

\* df.to_dict('records'): each count with the type of its column.
to_dict(frame) ==
    [i \in DOMAIN frame.cells |->
        [namespace |-> frame.cells[i].namespace,
         counts |-> [t \in frame.columns |->
                        [n |-> frame.cells[i].counts[t].n, dtype |-> frame.dtype[t]]]]]

SummaryInit ==
    /\ sm_data \in MountMaps
    /\ sm_pc = "call"
    /\ sm_records = <<>>
    /\ sm_columns = {}
    /\ sm_written = FALSE
    /\ sm_raised = FALSE

\* _write_item_summary(file_path, data, item_type)
write_item_summary ==
    /\ sm_pc = "call"
    /\ sm_pc' = "done"
    /\ LET rows == SumRows(sm_data)
           filled == fillna(DataFrame(rows))
       IN  IF rows = <<>>
           THEN UNCHANGED <<sm_records, sm_columns, sm_written, sm_raised>>
           ELSE IF CastRaises(filled)
           THEN /\ sm_raised' = TRUE
                /\ UNCHANGED <<sm_records, sm_columns, sm_written>>
           ELSE /\ sm_records' = to_dict(astype_int64(filled))
                /\ sm_columns' = {"namespace"} \cup filled.columns
                /\ sm_written' = TRUE
                /\ UNCHANGED sm_raised
    /\ UNCHANGED sm_data

SummaryNext ==
    \/ write_item_summary /\ UNCHANGED <<auditVars, pathVars, cliVars, exportVars, legacyVars, clientVars, moreVars>>

InitSummary == SummaryInit /\ AuditIdle /\ PathIdle /\ CliIdle /\ ExportIdle /\ LegacyIdle /\ ClientIdle /\ MoreIdle

SummarySpec == InitSummary /\ [][SummaryNext]_vars

\* ======================================= the legacy standalone tool
\* The children the Server lists under p.
RECURSIVE LgChildSeqFrom(_, _)
LgChildSeqFrom(p, n) ==
    IF n > NumNodes THEN <<>>
    ELSE IF n # StartPath /\ lg_parent[n] = p
         THEN <<n>> \o LgChildSeqFrom(p, n + 1)
         ELSE LgChildSeqFrom(p, n + 1)

LegacyInit ==
    /\ lg_parent \in {f \in [Nodes \ {StartPath} -> Nodes] : \A n \in DOMAIN f : f[n] < n}
    /\ lg_worker_threads \in 1..MaxWorkers
    /\ lg_path_queue = <<>>
    /\ lg_unfinished_tasks = 0
    /\ lg_mainPc = "validate"
    /\ lg_mainI = 0
    /\ lg_pc = [w \in Workers |-> "off"]
    /\ lg_cur = [w \in Workers |-> 0]
    /\ lg_expiries = 0
    /\ lg_files = {}
    /\ lg_result = "none"
    /\ lg_exit = 0

\* _validate_vault_connection raises VaultConnectionError: return False.
LgValidateFails ==
    /\ lg_mainPc = "validate"
    /\ lg_result' = "False"
    /\ lg_mainPc' = "returned"
    /\ UNCHANGED <<lg_parent, lg_worker_threads, lg_path_queue, lg_unfinished_tasks,
                   lg_mainI, lg_pc, lg_cur, lg_expiries, lg_files, lg_exit>>

\* The connection is valid: the start path is put and the workers started.
LgStartWorkers ==
    /\ lg_mainPc = "validate"
    /\ lg_path_queue' = <<StartPath>>
    /\ lg_unfinished_tasks' = 1
    /\ lg_pc' = [w \in Workers |-> IF w <= lg_worker_threads THEN "get" ELSE "off"]
    /\ lg_mainPc' = "join"
    /\ UNCHANGED <<lg_parent, lg_worker_threads, lg_mainI, lg_cur, lg_expiries,
                   lg_files, lg_result, lg_exit>>

\* path_queue.join()
LgQueueJoin ==
    /\ lg_mainPc = "join"
    /\ lg_unfinished_tasks = 0
    /\ lg_mainPc' = "sentinels"
    /\ lg_mainI' = 0
    /\ UNCHANGED <<lg_parent, lg_worker_threads, lg_path_queue, lg_unfinished_tasks,
                   lg_pc, lg_cur, lg_expiries, lg_files, lg_result, lg_exit>>

\* for _ in workers: path_queue.put(None)
LgPutSentinel ==
    /\ lg_mainPc = "sentinels"
    /\ lg_path_queue' = Append(lg_path_queue, Sentinel)
    /\ lg_unfinished_tasks' = lg_unfinished_tasks + 1
    /\ lg_mainI' = lg_mainI + 1
    /\ lg_mainPc' = IF lg_mainI + 1 = lg_worker_threads THEN "joinworkers" ELSE "sentinels"
    /\ UNCHANGED <<lg_parent, lg_worker_threads, lg_pc, lg_cur, lg_expiries, lg_files,
                   lg_result, lg_exit>>

\* for worker in workers: worker.join(timeout=5); self.stats.finish()
LgJoinWorkers ==
    /\ lg_mainPc = "joinworkers"
    /\ lg_mainPc' = "write"
    /\ UNCHANGED <<lg_parent, lg_worker_threads, lg_path_queue, lg_unfinished_tasks,
                   lg_mainI, lg_pc, lg_cur, lg_expiries, lg_files, lg_result, lg_exit>>

\* self._write_json_files(cluster_name)
LgWriteJson ==
    /\ lg_mainPc = "write"
    /\ lg_files' = lg_files \cup {"json"}
    /\ lg_mainPc' = "write_csv"
    /\ UNCHANGED <<lg_parent, lg_worker_threads, lg_path_queue, lg_unfinished_tasks,
                   lg_mainI, lg_pc, lg_cur, lg_expiries, lg_result, lg_exit>>

\* self._generate_summary_reports(cluster_name)
LgWriteCsv ==
    /\ lg_mainPc = "write_csv"
    /\ lg_files' = lg_files \cup {"csv"}
    /\ lg_mainPc' = "log"
    /\ UNCHANGED <<lg_parent, lg_worker_threads, lg_path_queue, lg_unfinished_tasks,
                   lg_mainI, lg_pc, lg_cur, lg_expiries, lg_result, lg_exit>>

\* self._log_audit_summary(); return True
LgReturnTrue ==
    /\ lg_mainPc = "log"
    /\ lg_result' = "True"
    /\ lg_mainPc' = "returned"
    /\ UNCHANGED <<lg_parent, lg_worker_threads, lg_path_queue, lg_unfinished_tasks,
                   lg_mainI, lg_pc, lg_cur, lg_expiries, lg_files, lg_exit>>

\* except KeyboardInterrupt: return False -- wherever in the try block the
\* main thread is when the interrupt is raised.
LgInterrupt ==
    /\ lg_mainPc \in {"validate", "join", "sentinels", "joinworkers", "write",
                      "write_csv", "log"}
    /\ lg_result' = "False"
    /\ lg_mainPc' = "returned"
    /\ UNCHANGED <<lg_parent, lg_worker_threads, lg_path_queue, lg_unfinished_tasks,
                   lg_mainI, lg_pc, lg_cur, lg_expiries, lg_files, lg_exit>>

\* main(): return 0 if success else 1
LgMainReturn ==
    /\ lg_mainPc = "returned"
    /\ lg_exit' = IF lg_result = "True" THEN 0 ELSE 1
    /\ lg_mainPc' = "exit"
    /\ UNCHANGED <<lg_parent, lg_worker_threads, lg_path_queue, lg_unfinished_tasks,
                   lg_mainI, lg_pc, lg_cur, lg_expiries, lg_files, lg_result>>

\* path_queue.get(timeout=300) returns an item; None breaks out of the loop.
LgGet(w) ==
    /\ lg_pc[w] = "get"
    /\ lg_path_queue # <<>>
    /\ lg_path_queue' = Tail(lg_path_queue)
    /\ lg_cur' = [lg_cur EXCEPT ![w] = Head(lg_path_queue)]
    /\ lg_pc' = [lg_pc EXCEPT ![w] =
                   IF Head(lg_path_queue) = Sentinel THEN "td_exit" ELSE "visit"]
    /\ UNCHANGED <<lg_parent, lg_worker_threads, lg_unfinished_tasks, lg_mainPc,
                   lg_mainI, lg_expiries, lg_files, lg_result, lg_exit>>

\* path_queue.get(timeout=300) raises queue.Empty: continue, through finally.
LgGetTimeout(w) ==
    /\ lg_pc[w] = "get"
    /\ lg_path_queue = <<>>
    /\ lg_expiries < MaxExpiries
    /\ lg_expiries' = lg_expiries + 1
    /\ lg_pc' = [lg_pc EXCEPT ![w] = "td_empty"]
    /\ UNCHANGED <<lg_parent, lg_worker_threads, lg_path_queue, lg_unfinished_tasks,
                   lg_mainPc, lg_mainI, lg_cur, lg_files, lg_result, lg_exit>>

\* _traverse_namespace: every child listed under the path is put on the queue.
LgTraverse(w) ==
    /\ lg_pc[w] = "visit"
    /\ lg_path_queue' = lg_path_queue \o LgChildSeqFrom(lg_cur[w], 1)
    /\ lg_unfinished_tasks' = lg_unfinished_tasks + Len(LgChildSeqFrom(lg_cur[w], 1))
    /\ lg_pc' = [lg_pc EXCEPT ![w] = "td_visit"]
    /\ UNCHANGED <<lg_parent, lg_worker_threads, lg_mainPc, lg_mainI, lg_cur,
                   lg_expiries, lg_files, lg_result, lg_exit>>

\* finally: try: path_queue.task_done() except ValueError: pass
LgTaskDone(w) ==
    /\ lg_pc[w] \in {"td_visit", "td_exit", "td_empty"}
    /\ lg_unfinished_tasks' =
          IF lg_unfinished_tasks = 0 THEN 0 ELSE lg_unfinished_tasks - 1
    /\ lg_pc' = [lg_pc EXCEPT ![w] = IF lg_pc[w] = "td_exit" THEN "exited" ELSE "get"]
    /\ lg_cur' = [lg_cur EXCEPT ![w] = 0]
    /\ UNCHANGED <<lg_parent, lg_worker_threads, lg_path_queue, lg_mainPc, lg_mainI,
                   lg_expiries, lg_files, lg_result, lg_exit>>

LegacyStep ==
    \/ LgValidateFails
    \/ LgStartWorkers
    \/ LgQueueJoin
    \/ LgPutSentinel
    \/ LgJoinWorkers
    \/ LgWriteJson
    \/ LgWriteCsv
    \/ LgReturnTrue
    \/ LgInterrupt
    \/ LgMainReturn
    \/ \E w \in Workers : LgGet(w)
    \/ \E w \in Workers : LgGetTimeout(w)
    \/ \E w \in Workers : LgTraverse(w)
    \/ \E w \in Workers : LgTaskDone(w)

LegacyNext ==
    LegacyStep /\ UNCHANGED <<auditVars, pathVars, cliVars, exportVars, summaryVars, clientVars, moreVars>>

InitLegacy == LegacyInit /\ AuditIdle /\ PathIdle /\ CliIdle /\ ExportIdle /\ SummaryIdle /\ ClientIdle /\ MoreIdle

LegacySpec == InitLegacy /\ [][LegacyNext]_vars

\* No path waits in the legacy queue and no legacy worker holds one.
LgDrained ==
    /\ {lg_path_queue[i] : i \in 1..Len(lg_path_queue)} \ {Sentinel} = {}
    /\ \A w \in Workers : lg_pc[w] # "visit"

\* ======================================================= VaultClient
\* JSON values: an export record (an object, told apart by its id), an array
\* of values, and an object wrapping an array under "data".
IdToks == {"1", "2"}

Obj(i) == [kind |-> "obj", id |-> i, items |-> <<>>]

Arr(xs) == [kind |-> "arr", id |-> "", items |-> xs]

Wrap(xs) == [kind |-> "wrap", id |-> "", items |-> xs]

\* The Python dict {}.
EmptyDict == [kind |-> "obj", id |-> "", items |-> <<>>]

Objs(ids) == [i \in DOMAIN ids |-> Obj(ids[i])]

\* The text of a value.  Tokens: { } [ ] , the ids, "d" for the key "data"
\* with its colon, and "\n".
RECURSIVE serialise(_)
RECURSIVE JoinSer(_, _)
serialise(v) ==
    IF v.kind = "obj" THEN <<"{", v.id, "}">>
    ELSE IF v.kind = "arr" THEN <<"[">> \o JoinSer(v.items, ",") \o <<"]">>
    ELSE <<"{", "d", "[">> \o JoinSer(v.items, ",") \o <<"]", "}">>

JoinSer(xs, sep) ==
    IF xs = <<>> THEN <<>>
    ELSE IF Len(xs) = 1 THEN serialise(xs[1])
    ELSE serialise(xs[1]) \o <<sep>> \o JoinSer(Tail(xs), sep)

\* NDJSON with every line ended by a newline.
RECURSIVE Lines(_)
Lines(xs) == IF xs = <<>> THEN <<>> ELSE serialise(xs[1]) \o <<"\n">> \o Lines(Tail(xs))

Shapes == {"array", "wrapped", "ndjson", "ndjson_nl", "garbage", "empty"}

\* The body the Server sends for the records in the given shape.
Body(shape, ids) ==
    IF shape = "array" THEN serialise(Arr(Objs(ids)))
    ELSE IF shape = "wrapped" THEN serialise(Wrap(Objs(ids)))
    ELSE IF shape = "ndjson" THEN JoinSer(Objs(ids), "\n")
    ELSE IF shape = "ndjson_nl" THEN Lines(Objs(ids))
    ELSE IF shape = "garbage" THEN <<"x">>
    ELSE <<>>

\* str.lstrip / str.rstrip / str.strip of whitespace.
RECURSIVE lstrip(_)
lstrip(t) == IF t # <<>> /\ Head(t) = "\n" THEN lstrip(Tail(t)) ELSE t

RECURSIVE rstrip_ws(_)
rstrip_ws(t) ==
    IF t # <<>> /\ t[Len(t)] = "\n" THEN rstrip_ws(SubSeq(t, 1, Len(t) - 1)) ELSE t

strip(t) == lstrip(rstrip_ws(t))

ParseFail == [ok |-> FALSE, val |-> NoValue, rest |-> <<>>]

\* json's scanner: one value from the front of t, and the text after it.
RECURSIVE ParseValue(_)
RECURSIVE ParseItems(_, _)
ParseValue(t) ==
    LET u == lstrip(t)
    IN  IF u = <<>> THEN ParseFail
        ELSE IF Head(u) = "[" THEN ParseItems(Tail(u), <<>>)
        ELSE IF Head(u) # "{" THEN ParseFail
        ELSE IF Len(u) >= 3 /\ u[2] \in IdToks /\ u[3] = "}"
             THEN [ok |-> TRUE, val |-> Obj(u[2]), rest |-> SubSeq(u, 4, Len(u))]
        ELSE IF Len(u) >= 2 /\ u[2] = "d"
             THEN LET r == ParseValue(SubSeq(u, 3, Len(u)))
                      after == lstrip(r.rest)
                  IN  IF r.ok /\ r.val.kind = "arr" /\ after # <<>> /\ Head(after) = "}"
                      THEN [ok |-> TRUE, val |-> Wrap(r.val.items), rest |-> Tail(after)]
                      ELSE ParseFail
        ELSE ParseFail

ParseItems(t, acc) ==
    LET u == lstrip(t)
    IN  IF u = <<>> THEN ParseFail
        ELSE IF Head(u) = "]" /\ acc = <<>>
             THEN [ok |-> TRUE, val |-> Arr(<<>>), rest |-> Tail(u)]
        ELSE LET r == ParseValue(u)
                 after == lstrip(r.rest)
             IN  IF ~r.ok \/ after = <<>> THEN ParseFail
                 ELSE IF Head(after) = "]"
                      THEN [ok |-> TRUE, val |-> Arr(Append(acc, r.val)), rest |-> Tail(after)]
                 ELSE IF Head(after) = ","
                      THEN ParseItems(Tail(after), Append(acc, r.val))
                 ELSE ParseFail

\* json.loads / response.json(): the value, or the message of JSONDecodeError.
json_loads(t) ==
    LET r == ParseValue(t)
    IN  IF ~r.ok THEN [err |-> "Expecting value", val |-> NoValue]
        ELSE IF lstrip(r.rest) # <<>> THEN [err |-> "Extra data", val |-> NoValue]
        ELSE [err |-> "", val |-> r.val]

\* text.split('\n')
RECURSIVE split(_, _)
split(t, line) ==
    IF t = <<>> THEN <<line>>
    ELSE IF Head(t) = "\n" THEN <<line>> \o split(Tail(t), <<>>)
    ELSE split(Tail(t), Append(line, Head(t)))

\* [json.loads(line) for line in response.text.strip().split('\n') if line]
RECURSIVE LoadLines(_)
LoadLines(lines) ==
    IF lines = <<>> THEN <<>>
    ELSE IF Head(lines) = <<>> THEN LoadLines(Tail(lines))
    ELSE <<json_loads(Head(lines))>> \o LoadLines(Tail(lines))

\* What the try block of the decoder gives: a value, or the exception raised.
Returned(v) == [exc |-> "none", val |-> v]

Raised(e) == [exc |-> e, val |-> NoValue]

\* try: return response.json() except json.JSONDecodeError: "Extra data" is
\* read as NDJSON, anything else raises VaultDataError.
Decode(text) ==
    LET first == json_loads(text)
        loaded == LoadLines(split(strip(text), <<>>))
    IN  IF first.err = "" THEN Returned(first.val)
        ELSE IF first.err = "Extra data"
             THEN IF \E i \in DOMAIN loaded : loaded[i].err # ""
                  THEN Raised("JSONDecodeError")
                  ELSE Returned(Arr([i \in DOMAIN loaded |-> loaded[i].val]))
        ELSE Raised("VaultDataError")

\* client.adapter.request: hvac raises for a failed transport and for an
\* error status; its JSONAdapter hands back the parsed body of a 200 answer
\* when the body is JSON, and the Response in every other case.
AdapterRequest ==
    IF vc_transport # "ok" THEN [exc |-> vc_transport, parsed |-> FALSE, val |-> NoValue]
    ELSE IF vc_status = 403 THEN [exc |-> "Forbidden", parsed |-> FALSE, val |-> NoValue]
    ELSE IF vc_status = 404 THEN [exc |-> "InvalidPath", parsed |-> FALSE, val |-> NoValue]
    ELSE IF vc_status = 500 THEN [exc |-> "VaultError", parsed |-> FALSE, val |-> NoValue]
    ELSE IF vc_adapter = "json" /\ vc_status = 200 /\ json_loads(vc_body).err = ""
         THEN [exc |-> "none", parsed |-> TRUE, val |-> json_loads(vc_body).val]
    ELSE [exc |-> "none", parsed |-> FALSE, val |-> NoValue]

\* The except clauses of get and post: the class that leaves the call for an
\* exception raised anywhere inside the try block.
Surface(exc) ==
    IF exc = "Forbidden" THEN "VaultPermissionError"
    ELSE IF exc \in {"InvalidPath", "VaultError"} THEN "VaultAPIError"
    ELSE IF exc \in {"ConnectionError", "Timeout"} THEN "VaultConnectionError"
    ELSE "VaultAPIError"

\* The try block of get.
GetBody ==
    LET response == AdapterRequest
    IN  IF response.exc # "none" THEN Raised(response.exc)
        ELSE IF response.parsed /\ response.val.kind \in {"obj", "wrap"}
             THEN Returned(response.val)
        ELSE IF response.parsed THEN Raised("VaultDataError")
        ELSE IF vc_status # 200 THEN Raised("VaultAPIError")
        ELSE Decode(vc_body)

\* The decoder of get is reached: the adapter handed back a 200 Response.
GetDecodes ==
    /\ AdapterRequest.exc = "none"
    /\ ~AdapterRequest.parsed
    /\ vc_status = 200

\* The try block of post.
PostBody ==
    LET response == AdapterRequest
    IN  IF response.exc # "none" THEN Raised(response.exc)
        ELSE IF response.parsed THEN Raised("AttributeError")
        ELSE IF vc_status \notin {200, 204} THEN Raised("VaultAPIError")
        ELSE IF vc_body = <<>> THEN Returned(EmptyDict)
        ELSE IF json_loads(vc_body).err = "" THEN Returned(json_loads(vc_body).val)
        ELSE Raised("VaultDataError")

\* VaultClient.get; get_entity_export_data returns its value as it is.
VaultClient_get ==
    /\ vc_op = "get" /\ vc_pc = "call"
    /\ vc_pc' = "done"
    /\ vc_result' = GetBody.val
    /\ vc_raised' = IF GetBody.exc = "none" THEN "none" ELSE Surface(GetBody.exc)
    /\ vc_decoded' = GetDecodes
    /\ UNCHANGED <<vc_op, vc_adapter, vc_transport, vc_status, vc_shape, vc_records,
                   vc_body, vc_health, vc_sealed, vc_authenticated, vc_initialized,
                   vc_cluster_name>>

\* VaultClient.post
VaultClient_post ==
    /\ vc_op = "post" /\ vc_pc = "call"
    /\ vc_pc' = "done"
    /\ vc_result' = PostBody.val
    /\ vc_raised' = IF PostBody.exc = "none" THEN "none" ELSE Surface(PostBody.exc)
    /\ UNCHANGED <<vc_op, vc_adapter, vc_transport, vc_status, vc_shape, vc_records,
                   vc_body, vc_health, vc_sealed, vc_authenticated, vc_initialized,
                   vc_cluster_name, vc_decoded>>

\* The try block of validate_connection: the cluster name, or the class of
\* the exception raised by a check or by the library call it makes.
ValidateBody ==
    IF vc_health \in {"VaultError", "Exception"} THEN [exc |-> vc_health, name |-> ""]
    ELSE IF vc_health = "other" THEN [exc |-> "VaultConnectionError", name |-> ""]
    ELSE IF vc_sealed = "raises" THEN [exc |-> "VaultError", name |-> ""]
    ELSE IF vc_sealed = "True" THEN [exc |-> "VaultConnectionError", name |-> ""]
    ELSE IF vc_authenticated = "raises" THEN [exc |-> "VaultError", name |-> ""]
    ELSE IF vc_authenticated = "False" THEN [exc |-> "VaultConnectionError", name |-> ""]
    ELSE IF vc_initialized = "raises" THEN [exc |-> "VaultError", name |-> ""]
    ELSE IF vc_initialized = "False" THEN [exc |-> "VaultConnectionError", name |-> ""]
    ELSE [exc |-> "none",
          name |-> IF vc_health = "dict" THEN "test-cluster" ELSE "unknown"]

\* Mutant: an exception of the library leaves the call as it is.
SurfaceValidate_PassLibrary(exc) == exc

\* except hvac.exceptions.VaultError / except Exception of validate_connection.
SurfaceValidate(exc) == "VaultConnectionError"

\* VaultClient.validate_connection
VaultClient_validate_connection ==
    /\ vc_op = "validate" /\ vc_pc = "call"
    /\ vc_pc' = "done"
    /\ vc_cluster_name' = ValidateBody.name
    /\ vc_raised' = IF ValidateBody.exc = "none" THEN "none"
                    ELSE SurfaceValidate(ValidateBody.exc)
    /\ UNCHANGED <<vc_op, vc_adapter, vc_transport, vc_status, vc_shape, vc_records,
                   vc_body, vc_health, vc_sealed, vc_authenticated, vc_initialized,
                   vc_result, vc_decoded>>

\* What a library call that returns a truth value gives.
CallOutcomes == {"True", "False", "raises"}

ClientInit ==
    /\ vc_op \in {"get", "post", "validate"}
    /\ vc_adapter \in (IF vc_op = "validate" THEN {"raw"} ELSE {"json", "raw"})
    /\ vc_transport \in (IF vc_op = "validate" THEN {"ok"}
                         ELSE {"ok", "ConnectionError", "Timeout"})
    /\ vc_status \in (IF vc_op = "validate" \/ vc_transport # "ok" THEN {200}
                      ELSE {200, 204, 403, 404, 500})
    /\ vc_shape \in (IF vc_op = "validate" \/ vc_transport # "ok" \/ vc_status # 200
                     THEN {"empty"} ELSE Shapes)
    /\ vc_records \in (IF vc_shape \in {"garbage", "empty"} THEN {<<>>}
                       ELSE BoundedSeq(IdToks, MaxRecords))
    /\ vc_body = Body(vc_shape, vc_records)
    /\ vc_health \in (IF vc_op = "validate"
                      THEN {"dict", "dict_unnamed", "other", "VaultError", "Exception"}
                      ELSE {"dict"})
    /\ vc_sealed \in (IF vc_op = "validate" THEN CallOutcomes ELSE {"False"})
    /\ vc_authenticated \in (IF vc_op = "validate" THEN CallOutcomes ELSE {"True"})
    /\ vc_initialized \in (IF vc_op = "validate" THEN CallOutcomes ELSE {"True"})
    /\ vc_pc = "call"
    /\ vc_result = NoValue
    /\ vc_cluster_name = ""
    /\ vc_raised = "none"
    /\ vc_decoded = FALSE

ClientNext ==
    \/ VaultClient_get /\ UNCHANGED <<auditVars, pathVars, cliVars, exportVars, summaryVars, legacyVars, moreVars>>
    \/ VaultClient_post /\ UNCHANGED <<auditVars, pathVars, cliVars, exportVars, summaryVars, legacyVars, moreVars>>
    \/ VaultClient_validate_connection /\ UNCHANGED <<auditVars, pathVars, cliVars, exportVars, summaryVars, legacyVars, moreVars>>

InitClient ==
    ClientInit /\ AuditIdle /\ PathIdle /\ CliIdle /\ ExportIdle /\ SummaryIdle /\ LegacyIdle /\ MoreIdle

ClientSpec == InitClient /\ [][ClientNext]_vars

\* ================================================ one _traverse_namespace
\* How a list call of the visit ends: with a listing, or with hvac's
\* InvalidPath (404), Forbidden (403) or any other exception.
Outcomes == {"ok", "InvalidPath", "Forbidden", "error"}

\* The except clause of the outer try that an exception of class o reaches.
Handler(o) == IF o = "Forbidden" THEN "forbidden" ELSE "exception"

VisitInit ==
    /\ tv_auth \in Outcomes
    /\ tv_secrets \in Outcomes
    /\ tv_ns \in Outcomes
    /\ tv_children \in 0..(NumNodes - 1)
    /\ tv_pc = "start"
    /\ tv_auth_stored = FALSE
    /\ tv_secrets_stored = FALSE
    /\ tv_put = 0
    /\ tv_recorded = 0
    /\ tv_lock = FALSE
    /\ tv_processed = 0
    /\ tv_errors = 0

\* self.stats.increment_processed(), before the try.
TvBegin ==
    /\ tv_pc = "start"
    /\ tv_processed' = tv_processed + 1
    /\ tv_pc' = "auth"
    /\ UNCHANGED <<tv_auth, tv_secrets, tv_ns, tv_children, tv_auth_stored,
                   tv_secrets_stored, tv_put, tv_recorded, tv_lock, tv_errors>>

\* auth_methods = client.sys.list_auth_methods()['data']
TvListAuth ==
    /\ tv_pc = "auth"
    /\ tv_pc' = IF tv_auth = "ok" THEN "secrets" ELSE Handler(tv_auth)
    /\ UNCHANGED <<tv_auth, tv_secrets, tv_ns, tv_children, tv_auth_stored,
                   tv_secrets_stored, tv_put, tv_recorded, tv_lock, tv_processed,
                   tv_errors>>

\* secret_engines = client.sys.list_mounted_secrets_engines()['data']
TvListSecrets ==
    /\ tv_pc = "secrets"
    /\ tv_pc' = IF tv_secrets = "ok" THEN "store" ELSE Handler(tv_secrets)
    /\ UNCHANGED <<tv_auth, tv_secrets, tv_ns, tv_children, tv_auth_stored,
                   tv_secrets_stored, tv_put, tv_recorded, tv_lock, tv_processed,
                   tv_errors>>

\* with self.thread_lock: self.data.auth_methods[p] = auth_methods
TvStoreAuth ==
    /\ tv_pc = "store"
    /\ tv_lock' = TRUE
    /\ tv_auth_stored' = TRUE
    /\ tv_pc' = "store2"
    /\ UNCHANGED <<tv_auth, tv_secrets, tv_ns, tv_children, tv_secrets_stored, tv_put,
                   tv_recorded, tv_processed, tv_errors>>

\* self.data.secret_engines[p] = secret_engines; the with-block ends.
TvStoreSecrets ==
    /\ tv_pc = "store2"
    /\ tv_secrets_stored' = TRUE
    /\ tv_lock' = FALSE
    /\ tv_pc' = "ns"
    /\ UNCHANGED <<tv_auth, tv_secrets, tv_ns, tv_children, tv_auth_stored, tv_put,
                   tv_recorded, tv_processed, tv_errors>>

\* client.sys.list_namespaces() in the inner try, whose except InvalidPath
\* passes; any other exception goes to the outer handlers.
TvListNamespaces ==
    /\ tv_pc = "ns"
    /\ tv_pc' = IF tv_ns = "ok" THEN (IF tv_children = 0 THEN "done" ELSE "put")
                ELSE IF tv_ns = "InvalidPath" THEN "done"
                ELSE Handler(tv_ns)
    /\ UNCHANGED <<tv_auth, tv_secrets, tv_ns, tv_children, tv_auth_stored,
                   tv_secrets_stored, tv_put, tv_recorded, tv_lock, tv_processed,
                   tv_errors>>

\* path_queue.put(child_path_full)
TvPut ==
    /\ tv_pc = "put"
    /\ tv_put' = tv_put + 1
    /\ tv_pc' = "record"
    /\ UNCHANGED <<tv_auth, tv_secrets, tv_ns, tv_children, tv_auth_stored,
                   tv_secrets_stored, tv_recorded, tv_lock, tv_processed, tv_errors>>

\* with self.thread_lock: self.data.namespaces[...] = info; next child.
TvRecord ==
    /\ tv_pc = "record"
    /\ tv_recorded' = tv_recorded + 1
    /\ tv_pc' = IF tv_recorded + 1 = tv_children THEN "done" ELSE "put"
    /\ UNCHANGED <<tv_auth, tv_secrets, tv_ns, tv_children, tv_auth_stored,
                   tv_secrets_stored, tv_put, tv_lock, tv_processed, tv_errors>>

\* except hvac.exceptions.Forbidden: warning, self.stats.increment_errors()
TvForbidden ==
    /\ tv_pc = "forbidden"
    /\ tv_errors' = tv_errors + 1
    /\ tv_pc' = "done"
    /\ UNCHANGED <<tv_auth, tv_secrets, tv_ns, tv_children, tv_auth_stored,
                   tv_secrets_stored, tv_put, tv_recorded, tv_lock, tv_processed>>

\* except Exception: error, self.stats.increment_errors()
TvException ==
    /\ tv_pc = "exception"
    /\ tv_errors' = tv_errors + 1
    /\ tv_pc' = "done"
    /\ UNCHANGED <<tv_auth, tv_secrets, tv_ns, tv_children, tv_auth_stored,
                   tv_secrets_stored, tv_put, tv_recorded, tv_lock, tv_processed>>

TvStep ==
    \/ TvBegin
    \/ TvListAuth
    \/ TvListSecrets
    \/ TvStoreAuth
    \/ TvStoreSecrets
    \/ TvListNamespaces
    \/ TvPut
    \/ TvRecord
    \/ TvForbidden
    \/ TvException

VisitNext ==
    TvStep /\ UNCHANGED <<auditVars, pathVars, cliVars, exportVars, summaryVars,
                          legacyVars, clientVars, statsVars, oldVars>>

InitVisit ==
    /\ VisitInit /\ AuditIdle /\ PathIdle /\ CliIdle /\ ExportIdle
    /\ SummaryIdle /\ LegacyIdle /\ ClientIdle /\ StatsIdle /\ OldIdle

VisitSpec == InitVisit /\ [][VisitNext]_vars

\* ============================================ AuditStats and AuditData
\* The calls each thread may begin.
MaxCalls == 2

StatsInit ==
    /\ st_pc = [t \in Workers |-> "idle"]
    /\ st_calls = [t \in Workers |-> 0]
    /\ st_tmp = [t \in Workers |-> 0]
    /\ st_lock = 0
    /\ st_tlock = 0
    /\ st_processed = 0
    /\ st_errors = 0
    /\ st_k = 0
    /\ st_m = 0
    /\ st_written = [d \in {"auth_methods", "secret_engines", "namespaces"} |-> {}]

\* Thread t is inside the with-block of increment_processed / increment_errors.
InStats(t) == st_pc[t] \in {"p_in", "p_rd", "p_wr", "e_in", "e_rd", "e_wr"}

\* Thread t is inside a with self.thread_lock block of _traverse_namespace.
InMaps(t) == st_pc[t] \in {"s_auth", "s_secrets", "r_ns", "t_out"}

\* Thread t begins increment_processed, increment_errors, the with-block
\* that stores the two mount listings, or the one that records a child.
StCall(t) ==
    /\ st_pc[t] = "idle"
    /\ st_calls[t] < MaxCalls
    /\ st_calls' = [st_calls EXCEPT ![t] = @ + 1]
    /\ \E op \in {"p_wait", "e_wait", "s_wait", "r_wait"} :
           st_pc' = [st_pc EXCEPT ![t] = op]
    /\ UNCHANGED <<st_tmp, st_lock, st_tlock, st_processed, st_errors, st_k, st_m,
                   st_written>>

\* Mutant: the counters are updated without waiting for the lock.
AcquireStats_NoLock(t) ==
    /\ st_pc[t] \in {"p_wait", "e_wait"}
    /\ st_lock' = t
    /\ st_pc' = [st_pc EXCEPT ![t] = IF @ = "p_wait" THEN "p_in" ELSE "e_in"]
    /\ UNCHANGED <<st_calls, st_tmp, st_tlock, st_processed, st_errors, st_k, st_m,
                   st_written>>

\* with self._lock:
AcquireStats(t) ==
    /\ st_pc[t] \in {"p_wait", "e_wait"}
    /\ st_lock = 0
    /\ st_lock' = t
    /\ st_pc' = [st_pc EXCEPT ![t] = IF @ = "p_wait" THEN "p_in" ELSE "e_in"]
    /\ UNCHANGED <<st_calls, st_tmp, st_tlock, st_processed, st_errors, st_k, st_m,
                   st_written>>

\* self.processed_count += 1 / self.error_count += 1: the read.
ReadCounter(t) ==
    /\ st_pc[t] \in {"p_in", "e_in"}
    /\ st_tmp' = [st_tmp EXCEPT ![t] = IF st_pc[t] = "p_in" THEN st_processed
                                                          ELSE st_errors]
    /\ st_pc' = [st_pc EXCEPT ![t] = IF @ = "p_in" THEN "p_rd" ELSE "e_rd"]
    /\ UNCHANGED <<st_calls, st_lock, st_tlock, st_processed, st_errors, st_k, st_m,
                   st_written>>

\* ... and the write of the value read plus one.
WriteCounter(t) ==
    /\ st_pc[t] \in {"p_rd", "e_rd"}
    /\ st_processed' = IF st_pc[t] = "p_rd" THEN st_tmp[t] + 1 ELSE st_processed
    /\ st_errors' = IF st_pc[t] = "e_rd" THEN st_tmp[t] + 1 ELSE st_errors
    /\ st_tmp' = [st_tmp EXCEPT ![t] = 0]
    /\ st_pc' = [st_pc EXCEPT ![t] = IF @ = "p_rd" THEN "p_wr" ELSE "e_wr"]
    /\ UNCHANGED <<st_calls, st_lock, st_tlock, st_k, st_m, st_written>>

\* The with-block of the increment ends and the call returns.
ReleaseStats(t) ==
    /\ st_pc[t] \in {"p_wr", "e_wr"}
    /\ st_lock' = 0
    /\ st_k' = IF st_pc[t] = "p_wr" THEN st_k + 1 ELSE st_k
    /\ st_m' = IF st_pc[t] = "e_wr" THEN st_m + 1 ELSE st_m
    /\ st_pc' = [st_pc EXCEPT ![t] = "idle"]
    /\ UNCHANGED <<st_calls, st_tmp, st_tlock, st_processed, st_errors, st_written>>

\* with self.thread_lock:
AcquireThreadLock(t) ==
    /\ st_pc[t] \in {"s_wait", "r_wait"}
    /\ st_tlock = 0
    /\ st_tlock' = t
    /\ st_pc' = [st_pc EXCEPT ![t] = IF @ = "s_wait" THEN "s_auth" ELSE "r_ns"]
    /\ UNCHANGED <<st_calls, st_tmp, st_lock, st_processed, st_errors, st_k, st_m,
                   st_written>>

\* self.data.auth_methods[stored_namespace_path] = auth_methods
WriteAuth(t) ==
    /\ st_pc[t] = "s_auth"
    /\ st_written' = [st_written EXCEPT !["auth_methods"] = @ \cup {t}]
    /\ st_pc' = [st_pc EXCEPT ![t] = "s_secrets"]
    /\ UNCHANGED <<st_calls, st_tmp, st_lock, st_tlock, st_processed, st_errors, st_k,
                   st_m>>

\* self.data.secret_engines[stored_namespace_path] = secret_engines
WriteSecrets(t) ==
    /\ st_pc[t] = "s_secrets"
    /\ st_written' = [st_written EXCEPT !["secret_engines"] = @ \cup {t}]
    /\ st_pc' = [st_pc EXCEPT ![t] = "t_out"]
    /\ UNCHANGED <<st_calls, st_tmp, st_lock, st_tlock, st_processed, st_errors, st_k,
                   st_m>>

\* self.data.namespaces[child_path_full.rstrip('/')] = info
WriteNamespaces(t) ==
    /\ st_pc[t] = "r_ns"
    /\ st_written' = [st_written EXCEPT !["namespaces"] = @ \cup {t}]
    /\ st_pc' = [st_pc EXCEPT ![t] = "t_out"]
    /\ UNCHANGED <<st_calls, st_tmp, st_lock, st_tlock, st_processed, st_errors, st_k,
                   st_m>>

\* The with self.thread_lock block ends.
ReleaseThreadLock(t) ==
    /\ st_pc[t] = "t_out"
    /\ st_tlock' = 0
    /\ st_pc' = [st_pc EXCEPT ![t] = "idle"]
    /\ UNCHANGED <<st_calls, st_tmp, st_lock, st_processed, st_errors, st_k, st_m,
                   st_written>>

StatsStep(t) ==
    \/ StCall(t)
    \/ AcquireStats(t)
    \/ ReadCounter(t)
    \/ WriteCounter(t)
    \/ ReleaseStats(t)
    \/ AcquireThreadLock(t)
    \/ WriteAuth(t)
    \/ WriteSecrets(t)
    \/ WriteNamespaces(t)
    \/ ReleaseThreadLock(t)

StatsNext ==
    /\ \E t \in Workers : StatsStep(t)
    /\ UNCHANGED <<auditVars, pathVars, cliVars, exportVars, summaryVars,
                   legacyVars, clientVars, visitVars, oldVars>>

InitStats ==
    /\ StatsInit /\ AuditIdle /\ PathIdle /\ CliIdle /\ ExportIdle
    /\ SummaryIdle /\ LegacyIdle /\ ClientIdle /\ VisitIdle /\ OldIdle

StatsSpec == InitStats /\ [][StatsNext]_vars

\* ================================== the oldest revision (cluster_audit)
\* How the Vault calls of traverse_namespace end for a path: all three give a
\* listing, one raises hvac's InvalidPath or another VaultError, or one
\* raises an exception of the transport (requests' ConnectionError, Timeout).
OldOutcomes == {"ok", "InvalidPath", "VaultError", "transport"}

\* The children list_namespaces gives under p.
RECURSIVE OChildSeqFrom(_, _)
OChildSeqFrom(p, n) ==
    IF n > NumNodes THEN <<>>
    ELSE IF n # StartPath /\ o_parent[n] = p
         THEN <<n>> \o OChildSeqFrom(p, n + 1)
         ELSE OChildSeqFrom(p, n + 1)

OldInit ==
    /\ o_parent \in {f \in [Nodes \ {StartPath} -> Nodes] : \A n \in DOMAIN f : f[n] < n}
    /\ o_resp \in [Nodes -> OldOutcomes]
    /\ o_queue = <<>>
    /\ o_unfinished = 0
    /\ o_mainPc = "start"
    /\ o_mainI = 0
    /\ o_pc = [w \in Workers |-> "off"]
    /\ o_cur = [w \in Workers |-> 0]
    /\ o_kids = [w \in Workers |-> <<>>]
    /\ o_taken = 0
    /\ o_done = 0
    /\ o_stored = {}

\* main(): is_authenticated() is false: exit(1).
OAuthFails ==
    /\ o_mainPc = "start"
    /\ o_mainPc' = "exit1"
    /\ UNCHANGED <<o_parent, o_resp, o_queue, o_unfinished, o_mainI, o_pc, o_cur,
                   o_kids, o_taken, o_done, o_stored>>

\* main(): the start path is put and the worker threads are started.
OStart ==
    /\ o_mainPc = "start"
    /\ o_queue' = <<StartPath>>
    /\ o_unfinished' = 1
    /\ o_pc' = [w \in Workers |-> "get"]
    /\ o_mainPc' = "join"
    /\ UNCHANGED <<o_parent, o_resp, o_mainI, o_cur, o_kids, o_taken, o_done, o_stored>>

\* path_queue.join()
OQueueJoin ==
    /\ o_mainPc = "join"
    /\ o_unfinished = 0
    /\ o_mainPc' = "sentinels"
    /\ UNCHANGED <<o_parent, o_resp, o_queue, o_unfinished, o_mainI, o_pc, o_cur,
                   o_kids, o_taken, o_done, o_stored>>

\* for _ in range(WORKER_THREADS): path_queue.put(None)
OPutSentinel ==
    /\ o_mainPc = "sentinels"
    /\ o_queue' = Append(o_queue, Sentinel)
    /\ o_unfinished' = o_unfinished + 1
    /\ o_mainI' = o_mainI + 1
    /\ o_mainPc' = IF o_mainI + 1 = Cardinality(Workers) THEN "joinworkers" ELSE "sentinels"
    /\ UNCHANGED <<o_parent, o_resp, o_pc, o_cur, o_kids, o_taken, o_done, o_stored>>

\* for worker_thread in workers: worker_thread.join(), then write_to_file().
OJoinWorkers ==
    /\ o_mainPc = "joinworkers"
    /\ \A w \in Workers : o_pc[w] \in {"exited", "crashed"}
    /\ o_mainPc' = "done"
    /\ UNCHANGED <<o_parent, o_resp, o_queue, o_unfinished, o_mainI, o_pc, o_cur,
                   o_kids, o_taken, o_done, o_stored>>

\* worker(): namespace_path = path_queue.get(); None breaks the loop.
OGet(w) ==
    /\ o_pc[w] = "get"
    /\ o_queue # <<>>
    /\ o_queue' = Tail(o_queue)
    /\ o_cur' = [o_cur EXCEPT ![w] = Head(o_queue)]
    /\ o_taken' = IF Head(o_queue) = Sentinel THEN o_taken ELSE o_taken + 1
    /\ o_pc' = [o_pc EXCEPT ![w] = IF Head(o_queue) = Sentinel THEN "exited" ELSE "traverse"]
    /\ UNCHANGED <<o_parent, o_resp, o_unfinished, o_mainPc, o_mainI, o_kids, o_done,
                   o_stored>>

\* traverse_namespace up to its for loop: the three Vault calls and the
\* stores in the global dicts. InvalidPath and VaultError are caught; any
\* other exception leaves traverse_namespace and, uncaught in worker(), ends
\* the thread.
OTraverse(w) ==
    /\ o_pc[w] = "traverse"
    /\ o_stored' = IF o_resp[o_cur[w]] = "ok" THEN o_stored \cup {o_cur[w]} ELSE o_stored
    /\ o_kids' = [o_kids EXCEPT ![w] =
                    IF o_resp[o_cur[w]] = "ok" THEN OChildSeqFrom(o_cur[w], 1) ELSE <<>>]
    /\ o_pc' = [o_pc EXCEPT ![w] =
                  IF o_resp[o_cur[w]] = "transport" THEN "crashed"
                  ELSE IF o_resp[o_cur[w]] = "ok" /\ OChildSeqFrom(o_cur[w], 1) # <<>>
                       THEN "put"
                  ELSE "task_done"]
    /\ UNCHANGED <<o_parent, o_resp, o_queue, o_unfinished, o_mainPc, o_mainI, o_cur,
                   o_taken, o_done>>

\* path_queue.put(child_namespace_path)
OPut(w) ==
    /\ o_pc[w] = "put"
    /\ o_queue' = Append(o_queue, Head(o_kids[w]))
    /\ o_unfinished' = o_unfinished + 1
    /\ o_kids' = [o_kids EXCEPT ![w] = Tail(@)]
    /\ o_pc' = [o_pc EXCEPT ![w] = IF Tail(o_kids[w]) = <<>> THEN "task_done" ELSE "put"]
    /\ UNCHANGED <<o_parent, o_resp, o_mainPc, o_mainI, o_cur, o_taken, o_done, o_stored>>

\* path_queue.task_done()
OTaskDone(w) ==
    /\ o_pc[w] = "task_done"
    /\ o_unfinished > 0
    /\ o_unfinished' = o_unfinished - 1
    /\ o_done' = o_done + 1
    /\ o_cur' = [o_cur EXCEPT ![w] = 0]
    /\ o_pc' = [o_pc EXCEPT ![w] = "get"]
    /\ UNCHANGED <<o_parent, o_resp, o_queue, o_mainPc, o_mainI, o_kids, o_taken,
                   o_stored>>

OldStep ==
    \/ OAuthFails
    \/ OStart
    \/ OQueueJoin
    \/ OPutSentinel
    \/ OJoinWorkers
    \/ \E w \in Workers : OGet(w)
    \/ \E w \in Workers : OTraverse(w)
    \/ \E w \in Workers : OPut(w)
    \/ \E w \in Workers : OTaskDone(w)

OldNext ==
    OldStep /\ UNCHANGED <<auditVars, pathVars, cliVars, exportVars, summaryVars,
                           legacyVars, clientVars, visitVars, statsVars>>

InitOld ==
    /\ OldInit /\ AuditIdle /\ PathIdle /\ CliIdle /\ ExportIdle
    /\ SummaryIdle /\ LegacyIdle /\ ClientIdle /\ VisitIdle /\ StatsIdle

OldSpec == InitOld /\ [][OldNext]_vars

\* ------------------------------------------------------------------ C1
\* C1: every path put on the queue (the start path, and each child listed by a
\* visited parent) is visited exactly once: never twice, never enqueued again,
\* and when the run is over no enqueued path is left unvisited.
C1_VisitedExactlyOnce ==
    /\ \A n \in Nodes : visits[n] <= 1 /\ enq[n] <= 1
    /\ AuditOver => \A n \in Nodes : enq[n] > 0 => visits[n] = 1

\* ------------------------------------------------------------------ C2
\* C2: audit_cluster is about to enqueue a sentinel, or about to write the
\* reports, only when no path waits in the queue and no worker is in a visit.
C2_ShutdownOnlyWhenDrained ==
    mainPc \in {"sentinels", "write"} => Drained

\* ------------------------------------------------------------------ C3
\* C3: under fair scheduling audit_cluster eventually returns and every worker
\* thread has left its loop, whatever the Server answers per path.
C3_Terminates ==
    <>(mainPc \in {"done", "failed"} /\ \A w \in Workers : LeftLoop(w))

C3_Witness ==
    /\ AuditOver
    /\ worker_threads = MaxWorkers
    /\ \A w \in Started : pc[w] = "exited"
    /\ \E n \in Nodes : errs[n] > 0
    /\ processed_count > 1

\* ------------------------------------------------------------------ C4
\* C4: when audit_cluster has finished, data.namespaces holds every path
\* reachable from the start path except the start path, and every reachable
\* path whose mount listings succeed is a key of both mount maps.
C4_Complete ==
    mainPc = "done" =>
        /\ namespaces = ExpVisited \ {StartPath}
        /\ \A n \in ExpMounts : n \in auth_methods /\ n \in secret_engines

\* ------------------------------------------------------------------ C5
\* C5: whenever thread_lock is free, every key of data.auth_methods is a key
\* of data.secret_engines.
C5_AuthImpliesSecrets ==
    thread_lock = 0 => auth_methods \subseteq secret_engines

C5_Witness ==
    /\ thread_lock = 0
    /\ Cardinality(auth_methods) >= 2
    /\ \E w \in Workers : pc[w] = "store"

\* ------------------------------------------------------------------ C6
\* C6: in a run where some visit failed, once the run is over every path that
\* was discovered has still been visited, the queue holds no path and the
\* reports are written.
C6_FailureDoesNotStopRun ==
    (AuditOver /\ \E n \in Nodes : errs[n] > 0) =>
        /\ reports
        /\ QueuedPaths = {}
        /\ \A n \in Nodes : enq[n] > 0 => visits[n] = 1

\* ------------------------------------------------------------------ C7
\* C7: a path listed by its parent whose own mount listing returned Forbidden
\* is, when the run is over, in neither mount map, is a key of
\* data.namespaces, and has added exactly one to error_count.
C7_ForbiddenBranch ==
    AuditOver =>
        \A n \in Nodes \ {StartPath} :
            (visits[n] > 0 /\ resp[n] = "forbidden") =>
                /\ n \notin auth_methods
                /\ n \notin secret_engines
                /\ n \in namespaces
                /\ errs[n] = 1

C7_Witness ==
    /\ AuditOver
    /\ \E n \in Nodes \ {StartPath} :
          /\ resp[n] = "forbidden"
          /\ visits[n] = 1
          /\ n \in namespaces
          /\ errs[n] = 1
          /\ error_count = 1

C9_SameResultForAnyW ==
    AuditOver =>
        /\ auth_methods = ExpMounts
        /\ secret_engines = ExpMounts
        /\ namespaces = ExpVisited \ {StartPath}
        /\ processed_count = Cardinality(ExpVisited)
        /\ error_count = ExpErrors

\* ----------------------------------------------------------------- C10
\* C10: when validate_connection fails no worker is started, nothing is
\* visited, the three maps stay empty and no report is written.
C10_NothingAfterFailedValidation ==
    mainPc = "failed" =>
        /\ \A w \in Workers : pc[w] = "off"
        /\ processed_count = 0
        /\ \A n \in Nodes : visits[n] = 0
        /\ auth_methods = {} /\ secret_engines = {} /\ namespaces = {}
        /\ path_queue = <<>>
        /\ ~reports

C10_Witness == mainPc = "failed" /\ worker_threads = MaxWorkers

\* ----------------------------------------------------------------- C11
\* C11: if a KeyboardInterrupt reaches audit_cluster before the queue has
\* drained (before path_queue.join() has returned, or while a path is still
\* queued or being visited), no JSON or CSV report of that run is written.
C11_NoReportsWhenInterruptedEarly ==
    intr = "undrained" => ~json_written /\ ~reports

\* ----------------------------------------------------------------- C12
\* C12: the command line tool exits with status 1 when VAULT_ADDR or
\* VAULT_TOKEN is missing, when a connection validation failed (also inside a
\* namespace-audit run) or when the run was interrupted, and with status 0
\* when none of these happened and no export request failed, even if
\* namespaces failed.
C12_ExitCodes ==
    cli_pc = "exit" =>
        /\ (~vault_addr \/ ~vault_token \/ conn_failed \/ interrupted) => exit_code = 1
        /\ (vault_addr /\ vault_token /\ ~conn_failed /\ ~interrupted /\ ~export_failed)
               => exit_code = 0

\* ----------------------------------------------------------------- C13
\* C13: when the all subcommand is run without -n, the finished audit has
\* visited the root (processed_count >= 1) and stored its mounts under "".
C13_AllStartsAtRoot ==
    (s_pc = "done" /\ s_command = "all" /\ ~s_given) =>
        /\ s_processed_count >= 1
        /\ <<>> \in s_auth_methods
        /\ <<>> \in s_secret_engines

\* ----------------------------------------------------------------- C14
\* C14: for a non-empty start path given without a trailing '/', the mounts of
\* the start path are stored under the path as given, each child n listed under
\* it is put on the queue as path + '/' + n, and every path put on the queue
\* ends in '/' and is a namespace the Server holds.
C14_StartPathGetsSlash ==
    (s_namespace \notin {<<>>, None, <<"/">>} /\ s_namespace[Len(s_namespace)] # "/") =>
        /\ \A st \in s_stored : st.path = s_namespace => st.key = s_namespace
        /\ \A c \in s_children :
              /\ c.parent = s_namespace => c.put = s_namespace \o <<"/">> \o c.name
              /\ c.put[Len(c.put)] = "/"
              /\ c.put \in s_live

\* ----------------------------------------------------------------- C15
\* C15: the mounts of every visited path p whose listing succeeded are keys of
\* both mount maps under p without its trailing '/' (the root under ""), and
\* every child n listed under p is a key of data.namespaces under p + n
\* without its trailing '/'.
C15_KeysWithoutTrailingSlash ==
    /\ \A st \in s_stored :
          LET p == st.path
              k == IF p # <<>> /\ p[Len(p)] = "/" THEN SubSeq(p, 1, Len(p) - 1) ELSE p
          IN  st.key = k /\ k \in s_auth_methods /\ k \in s_secret_engines
    /\ \A c \in s_children :
          LET q == c.parent \o c.name
          IN  /\ q[Len(q)] = "/"
              /\ c.key = SubSeq(q, 1, Len(q) - 1)
              /\ c.key \in s_namespaces
    /\ s_auth_methods = {st.key : st \in s_stored}
    /\ s_namespaces = {c.key : c \in s_children}

C15_Witness ==
    /\ s_pc = "done"
    /\ [path |-> <<>>, key |-> <<>>] \in s_stored
    /\ [path |-> NsA, key |-> <<"a">>] \in s_stored
    /\ \E c \in s_children : c.parent = NsA /\ c.name = NsB /\ c.key = <<"a", "/", "b">>

\* ----------------------------------------------------------------- C16
\* C16: an export in which an error occurred, while fetching or while writing
\* a file, has raised to its caller and has written none of its files.
C16_ErrorsAbortWithoutFiles ==
    (x_pc = "end" /\ failed) => (raised /\ files = {})

\* ----------------------------------------------------------------- C17
\* C17: namespaces_data has one row per entry of by_namespace, in order, whose
\* mounts field is the length of the entry's mounts list; mounts_data has one
\* row per mount, in order, entry after entry; a missing count is 0 and a
\* missing string is "".
C17_ActivityRows ==
    ActivityProcessed =>
        /\ Len(namespaces_data) = Len(data)
        /\ Len(mounts_data) = MountsBefore(data, Len(data) + 1)
        /\ \A i \in 1..Len(data) :
              LET e == data[i]
                  ms == IF "mounts" \in DOMAIN e THEN e.mounts ELSE <<>>
                  row == namespaces_data[i]
                  id == IF "namespace_id" \in DOMAIN e THEN e.namespace_id ELSE ""
              IN  /\ row.mounts = Len(ms)
                  /\ row.namespace_id = id
                  /\ \A k \in {"clients", "entity_clients", "non_entity_clients"} :
                        row[k] = IF "counts" \in DOMAIN e /\ k \in DOMAIN e.counts
                                 THEN e.counts[k] ELSE 0
                  /\ \A j \in 1..Len(ms) :
                        LET mrow == mounts_data[MountsBefore(data, i) + j]
                        IN  /\ mrow.namespace_id = id
                            /\ mrow.mount_path =
                                  (IF "mount_path" \in DOMAIN ms[j]
                                   THEN ms[j].mount_path ELSE "")
                            /\ \A k \in {"clients", "entity_clients", "non_entity_clients"} :
                                  mrow[k] = IF "counts" \in DOMAIN ms[j]
                                               /\ k \in DOMAIN ms[j].counts
                                            THEN ms[j].counts[k] ELSE 0

C17_Witness ==
    /\ export = "activity"
    /\ x_pc = "end"
    /\ ~failed
    /\ Len(data) = 2
    /\ Len(mounts_data) = 3
    /\ namespaces_data[1].mounts = 2
    /\ namespaces_data[1].clients = 5
    /\ namespaces_data[2].entity_clients = 0
    /\ mounts_data[3].mount_path = ""

\* ----------------------------------------------------------------- C18
\* C18: a row of the activity export (per namespace or per mount) and a row of
\* the entity export carries namespace_path "root/" exactly when its record
\* had namespace_id "root" and an empty namespace_path; every other record
\* keeps its namespace_path.  (process_activity_data reads a missing
\* namespace_path as ""; in the entity export a record without the key has no
\* path to keep.)
C18_RootPathRewrite ==
    /\ ActivityProcessed =>
          \A i \in 1..Len(data) :
              LET id == DictGet(data[i], "namespace_id", "")
                  path == DictGet(data[i], "namespace_path", "")
                  isRoot == id = "root" /\ path = ""
                  n == Len(DictGet(data[i], "mounts", <<>>))
                  rows == {namespaces_data[i]} \cup
                          {mounts_data[MountsBefore(data, i) + j] : j \in 1..n}
              IN  \A row \in rows :
                      /\ row.namespace_path = "root/" <=> isRoot
                      /\ ~isRoot => row.namespace_path = path
    /\ (export = "entity" /\ df # <<>> /\ "namespace_path" \in df_columns) =>
          \A i \in 1..Len(data) :
              LET isRoot == /\ "namespace_id" \in DOMAIN data[i]
                            /\ "namespace_path" \in DOMAIN data[i]
                            /\ data[i].namespace_id = "root"
                            /\ data[i].namespace_path = ""
              IN  /\ df[i].namespace_path = "root/" <=> isRoot
                  /\ (~isRoot /\ "namespace_path" \in DOMAIN data[i])
                        => df[i].namespace_path = data[i].namespace_path

C18_Witness ==
    /\ export = "activity"
    /\ x_pc = "end"
    /\ ~failed
    /\ Len(data) = 2
    /\ DictGet(data[1], "namespace_path", "x") = ""
    /\ namespaces_data[1].namespace_path = "root/"
    /\ mounts_data # <<>>
    /\ mounts_data[1].namespace_path = "root/"
    /\ DictGet(data[2], "namespace_id", "") = "ns1"
    /\ namespaces_data[2].namespace_path = ""

\* ----------------------------------------------------------------- C19
\* C19: when the start or the end date is not a valid YYYY-MM-DD date, no
\* export request is sent, the export subcommands write no file, and the
\* process does not end with status 0.
C19_DatesValidatedFirst ==
    ~(validate_date_format(start_date) /\ validate_date_format(end_date)) =>
        /\ requests_sent = 0
        /\ command \in {"activity-export", "entity-export"} =>
              /\ ~files_written
              /\ cli_pc = "exit" => exit_code # 0

\* ----------------------------------------------------------------- C20
\* C20: for every non-empty list of records whose export met no error, the
\* entity CSV is written with one row per record and a header that holds every
\* column of the input and entity_type.
C20_EntityCsvForEveryList ==
    (export = "entity" /\ x_pc = "end" /\ data # <<>> /\ ~failed) =>
        /\ "csv" \in files
        /\ Len(df) = Len(data)
        /\ (Columns(data) \cup {"entity_type"}) \subseteq df_columns

\* ------------------------------------------------------------------ C26
\* C26: when audit_cluster has returned after the drain, _write_reports has
\* written all six artifacts, the three JSON files and the three CSV
\* summaries, whatever the final maps are.
C26_SixArtifacts ==
    mainPc = "done" =>
        /\ json_written
        /\ csv_files = {"summary-namespaces", "summary-auth-methods",
                        "summary-secrets-engines"}

\* ------------------------------------------------------------------ C28
\* C28: an iteration of _worker whose get expires with queue.Empty changes
\* nothing: from the expiry until the worker is back at its get, the
\* unfinished-task count, the queue, the three maps and both counters keep
\* their values, and the worker ends up waiting on the queue again.
C28_ExpiredGetChangesNothing ==
    [][\A w \in Workers :
          /\ (pc[w] = "get" /\ pc'[w] = "td_empty") =>
                 UNCHANGED <<unfinished_tasks, path_queue, dataVars,
                             processed_count, error_count>>
          /\ (pc[w] = "td_empty" /\ pc'[w] # "td_empty") =>
                 /\ UNCHANGED <<unfinished_tasks, path_queue, dataVars,
                                processed_count, error_count>>
                 /\ pc'[w] = "get"]_vars

\* ------------------------------------------------------------------ C29
\* C29: when the visit raises into _worker, the worker adds exactly one to
\* error_count, its task_done takes exactly one off the unfinished-task
\* count, no exception leaves the thread and the worker is back at its get.
C29_RaisingVisitIsContained ==
    [][\A w \in Workers :
          /\ (pc[w] = "werr" /\ pc'[w] # "werr") =>
                 error_count' = error_count + 1 /\ pc'[w] = "td_raise"
          /\ (pc[w] = "td_raise" /\ pc'[w] # "td_raise") =>
                 unfinished_tasks' + 1 = unfinished_tasks /\ pc'[w] = "get"]_vars

\* ------------------------------------------------------------------ C30
\* C30: when the visit of p has returned after a failed mount listing
\* (Forbidden or any other error), p's mounts are not stored, one error is
\* counted for p, and every child the Server holds under p has been put on
\* the queue and recorded in data.namespaces.
C30_ChildrenListedAfterMountFailure ==
    \A w \in Workers :
        (pc[w] = "td_visit" /\ MountsFail(cur[w])) =>
            /\ cur[w] \notin auth_methods \cup secret_engines
            /\ errs[cur[w]] = 1
            /\ \A c \in Nodes \ {StartPath} :
                   parent[c] = cur[w] => enq[c] >= 1 /\ c \in namespaces

\* ------------------------------------------------------------------ C25
\* The number of mounts of type t among items.
MountsOfType(items, t) ==
    Cardinality({j \in DOMAIN items : DictGet(items[j], "type", "") = t})

\* The types observed anywhere in the mount map.
ObservedTypes(d) ==
    UNION {{DictGet(d[i].items[j], "type", "") : j \in DOMAIN d[i].items} :
              i \in DOMAIN d} \ {""}

\* C25: the summary of a mount map with at least one key is written with
\* exactly one row per key, in the order of the keys, and in the row of key
\* k the cell of every observed type t is an integer, the number of k's mounts
\* of type t (0 when it has none).
C25_OneRowPerKeyWithCounts ==
    (sm_pc = "done" /\ sm_data # <<>>) =>
        /\ sm_written /\ ~sm_raised
        /\ Len(sm_records) = Len(sm_data)
        /\ \A i \in DOMAIN sm_data :
              /\ sm_records[i].namespace = sm_data[i].namespace
              /\ \A t \in ObservedTypes(sm_data) :
                    /\ t \in sm_columns
                    /\ sm_records[i].counts[t].dtype = "int64"
                    /\ sm_records[i].counts[t].n = MountsOfType(sm_data[i].items, t)

\* A summary of two keys was written where one namespace has two mounts of a
\* type the other has none of.
C25_Witness ==
    /\ sm_pc = "done" /\ sm_written
    /\ Len(sm_records) = 2
    /\ \E t \in sm_columns \ {"namespace"} :
          sm_records[1].counts[t].n = 2 /\ sm_records[2].counts[t].n = 0

\* ------------------------------------------------------------------ C27
\* C27: in the legacy tool audit_cluster returns True only with the queue
\* drained and the reports written, returns False (validation failure or
\* KeyboardInterrupt) with no report written, and main() returns 0 exactly
\* when audit_cluster returned True, 1 otherwise.
C27_LegacyReturnValue ==
    /\ lg_result = "True" => LgDrained /\ lg_files = {"json", "csv"}
    /\ lg_result = "False" => lg_files = {}
    /\ lg_mainPc = "exit" => lg_exit = (IF lg_result = "True" THEN 0 ELSE 1)

\* ------------------------------------------------------------------ C21
\* C21: for a 200 answer to the entity export whose body holds the records
\* as a JSON array, as an object wrapping them under "data", or as NDJSON,
\* get_entity_export_data returns the flat list of the records.
C21_EntityExportGivesList ==
    (/\ vc_op = "get" /\ vc_pc = "done"
     /\ vc_transport = "ok" /\ vc_status = 200
     /\ vc_shape \in {"array", "wrapped", "ndjson", "ndjson_nl"}) =>
        vc_raised = "none" /\ vc_result = Arr(Objs(vc_records))

\* ------------------------------------------------------------------ C22
\* C22: the decoder of get gives back v for the text of any single JSON value
\* v, and the list [v_1, ..., v_k] for the newline-joined texts of any list of
\* k >= 0 values, k = 1 included.
C22_DecoderLaws ==
    (vc_op = "get" /\ vc_pc = "done" /\ vc_decoded) =>
        /\ vc_shape = "array" => vc_raised = "none" /\ vc_result = Arr(Objs(vc_records))
        /\ vc_shape = "wrapped" => vc_raised = "none" /\ vc_result = Wrap(Objs(vc_records))
        /\ (vc_shape = "ndjson" /\ Len(vc_records) = 1) =>
               vc_raised = "none" /\ vc_result = Obj(vc_records[1])
        /\ vc_shape \in {"ndjson", "ndjson_nl"} =>
               vc_raised = "none" /\ vc_result = Arr(Objs(vc_records))

\* ------------------------------------------------------------------ C23
\* C23: get and post raise VaultPermissionError for a 403 answer,
\* VaultConnectionError for a failed or timed-out transport, VaultAPIError
\* for any other error status, and VaultDataError for a 200 answer whose body
\* cannot be parsed.
C23_ErrorMapping ==
    (vc_op \in {"get", "post"} /\ vc_pc = "done") =>
        /\ vc_transport # "ok" => vc_raised = "VaultConnectionError"
        /\ (vc_transport = "ok" /\ vc_status = 403) => vc_raised = "VaultPermissionError"
        /\ (vc_transport = "ok" /\ vc_status \in {404, 500}) => vc_raised = "VaultAPIError"
        /\ (vc_transport = "ok" /\ vc_status = 200 /\ vc_shape = "garbage") =>
               vc_raised = "VaultDataError"

\* ------------------------------------------------------------------ C24
\* C24: validate_connection returns the cluster name of the health status, or
\* 'unknown' when it has none, exactly when the health status is a mapping and
\* Vault is not sealed, authenticated and initialised; in every other case,
\* an exception of the library included, it raises VaultConnectionError.
C24_ValidateConnection ==
    (vc_op = "validate" /\ vc_pc = "done") =>
        IF /\ vc_health \in {"dict", "dict_unnamed"}
           /\ vc_sealed = "False"
           /\ vc_authenticated = "True"
           /\ vc_initialized = "True"
        THEN /\ vc_raised = "none"
             /\ vc_cluster_name = (IF vc_health = "dict" THEN "test-cluster" ELSE "unknown")
        ELSE vc_raised = "VaultConnectionError" /\ vc_cluster_name = ""

\* validate_connection has raised for an exception of the library, here from
\* is_initialized after every earlier check passed.
C24_Witness ==
    /\ vc_op = "validate" /\ vc_pc = "done"
    /\ vc_health = "dict_unnamed"
    /\ vc_sealed = "False" /\ vc_authenticated = "True" /\ vc_initialized = "raises"
    /\ vc_raised = "VaultConnectionError"

\* ------------------------------------------------------------------ C33
\* C33: with rate limiting enabled and two or more workers, each time the
\* processed count reaches a multiple of the batch size exactly one worker
\* sleeps: never two for the same count, and, once the run is over, one for
\* every multiple the count has reached.
C33_OneSleepPerMultiple ==
    (~rate_limit_disable /\ worker_threads >= 2) =>
        \A c \in Nodes :
            /\ slept_at[c] <= 1
            /\ (AuditOver /\ c <= processed_count /\ c % rate_limit_batch_size = 0) =>
                   slept_at[c] = 1

\* ------------------------------------------------------------------ C39
\* C39: a worker in the rate-limit sleep does not hold thread_lock (the
\* counters' lock is held only inside an increment), the lock is held only
\* by a worker in the middle of its two stores, and every other worker can
\* still take its next step: dequeue, visit, and store once the lock is free.
C39_SleepHoldsNoLock ==
    \A w \in Workers :
        pc[w] = "sleep" =>
            /\ thread_lock # w
            /\ thread_lock # 0 => pc[thread_lock] = "store2"
            /\ \A v \in Workers \ {w} :
                   /\ (pc[v] = "get" /\ path_queue # <<>>) => ENABLED Get(v)
                   /\ pc[v] = "visit" => ENABLED Visit(v)
                   /\ (pc[v] = "store" /\ thread_lock = 0) => ENABLED StoreAuth(v)
                   /\ pc[v] = "store2" => ENABLED StoreSecrets(v)

\* One worker sleeps while another is between its two stores, holding
\* thread_lock.
C39_Witness ==
    \E w, v \in Workers :
        /\ w # v
        /\ pc[w] = "sleep"
        /\ pc[v] = "store2"
        /\ thread_lock = v

\* ------------------------------------------------------------------ C34
\* C34: once a KeyboardInterrupt has left audit_cluster, no worker puts a
\* further path on the queue and no worker takes a further path from it to
\* start a new visit.
C34_NoNewWorkAfterInterrupt ==
    [][mainPc = "interrupted" =>
          /\ enq' = enq
          /\ \A w \in Workers : ~(pc[w] = "get" /\ InVisit(w)')]_vars

\* ------------------------------------------------------------------ C38
\* How often path n has been taken from the queue so far.
Dequeued(n) == enq[n] - Cardinality({i \in DOMAIN path_queue : path_queue[i] = n})

\* C38: every path has at most one error counted for each time it was
\* dequeued; a dequeue timeout and a sentinel count none, so error_count is
\* the sum over the paths and at most the number of paths dequeued so far.
C38_ErrorsAtMostDequeued ==
    /\ \A n \in Nodes : errs[n] <= Dequeued(n)
    /\ error_count <= Cardinality({n \in Nodes : Dequeued(n) >= 1})
    /\ \A n \in Nodes : Dequeued(n) <= 1

\* Three paths were dequeued; two of them have their one error counted, one
\* by the handler of the visit and one by the handler of the worker, and a
\* dequeue timeout has counted none.
C38_Witness ==
    /\ error_count = 2
    /\ errs[StartPath] = 0
    /\ Cardinality({n \in Nodes : Dequeued(n) >= 1}) = 3
    /\ expiries >= 1
    /\ \E w \in Workers : pc[w] = "td_raise"

\* ------------------------------------------------------------------ C36
\* The workers that have taken a sentinel from the queue.
TookSentinel == {w \in Workers : pc[w] \in {"td_exit", "exited"}}

SentinelsQueued == Cardinality({i \in DOMAIN path_queue : path_queue[i] = Sentinel})

\* C36: the sentinels are put only once no path is queued or being visited;
\* W of them are put, each worker takes exactly one and leaves its loop, no
\* path is ever queued behind a sentinel, and the queue is empty once
\* audit_cluster has returned and the workers have ended.
C36_SentinelShutdown ==
    /\ mainPc \in {"sentinels", "joinworkers", "write", "write_csv", "done"} =>
           /\ Drained
           /\ SentinelsQueued + Cardinality(TookSentinel) =
                  (IF mainPc = "sentinels" THEN mainI ELSE worker_threads)
    /\ \A i, j \in DOMAIN path_queue :
           (i < j /\ path_queue[i] = Sentinel) => path_queue[j] = Sentinel
    /\ AuditOver => /\ path_queue = <<>>
                    /\ \A w \in Started : pc[w] = "exited"

\* ------------------------------------------------------------------ C31
\* C31: when the visit has returned, data.auth_methods has an entry for the
\* path if the auth listing succeeds, whatever the secret-engine listing
\* does, and data.secret_engines has one if the secret-engine listing
\* succeeds, whatever the auth listing does.
C31_StoredIndependently ==
    tv_pc = "done" =>
        /\ tv_auth = "ok" => tv_auth_stored
        /\ tv_secrets = "ok" => tv_secrets_stored

\* ------------------------------------------------------------------ C32
\* C32: a visit whose list calls end only with listings or InvalidPath counts
\* no error, and an InvalidPath from the child listing leaves the path a leaf
\* with nothing enqueued.
C32_InvalidPathIsNoError ==
    (tv_pc = "done" /\ {tv_auth, tv_secrets, tv_ns} \subseteq {"ok", "InvalidPath"}) =>
        /\ tv_errors = 0
        /\ tv_ns = "InvalidPath" => tv_put = 0

\* ------------------------------------------------------------------ C35
\* C35: a thread writing one of the three maps holds thread_lock and a thread
\* inside a counter increment holds the stats lock, so no two threads are in
\* the same kind of update at once; whenever no increment is under way,
\* processed_count is the number of increment_processed calls made and
\* error_count the number of increment_errors calls made.
C35_RaceFreeAggregation ==
    /\ \A t \in Workers : InMaps(t) => st_tlock = t
    /\ \A t \in Workers : InStats(t) => st_lock = t
    /\ \A t, u \in Workers :
           t # u => ~(InMaps(t) /\ InMaps(u)) /\ ~(InStats(t) /\ InStats(u))
    /\ (\A t \in Workers : ~InStats(t)) =>
           st_processed = st_k /\ st_errors = st_m

\* Every thread has made all its calls, all of them increments, of both
\* counters, and the counters give the numbers of calls.
C35_Witness ==
    /\ \A t \in Workers : st_pc[t] = "idle" /\ st_calls[t] = MaxCalls
    /\ st_k + st_m = MaxCalls * Cardinality(Workers)
    /\ st_k >= 2 /\ st_m >= 1
    /\ st_processed = st_k /\ st_errors = st_m

\* ------------------------------------------------------------------ C37
\* A worker of the oldest revision has a path in hand.
OInHand(w) == o_pc[w] \in {"traverse", "put", "task_done"}

\* main() waits in path_queue.join() and no thread can take a step.
OStuck ==
    /\ o_mainPc = "join"
    /\ o_unfinished > 0
    /\ o_queue = <<>>
    /\ \A w \in Workers : o_pc[w] \in {"get", "crashed"}

\* C37: in the oldest revision the paths taken from the queue and not yet
\* matched by a task_done are exactly the ones a running worker has in hand,
\* whatever traverse_namespace did, and main() is never left waiting in
\* path_queue.join() with no thread able to step.
C37_TaskDoneForEveryPath ==
    /\ o_taken - o_done = Cardinality({w \in Workers : OInHand(w)})
    /\ ~OStuck

====
